---------------------------- MODULE Spec2Model ----------------------------
(***************************************************************************)
(* A model of ghu's shell-command subsystem: the risk classifier           *)
(* (shell-risk), the interactive approval provider and the ShellTool      *)
(* orchestrator that sequences classification, approval and sandboxed     *)
(* execution.                                                              *)
(*                                                                         *)
(* Strings of the program are sequences of one-character strings, so that *)
(* trimming, tokenizing and message templates are computed as the code    *)
(* computes them.  An optional value (T | undefined | null) is <<>> when  *)
(* absent and <<v>> when present.                                          *)
(***************************************************************************)
EXTENDS Integers, Sequences, FiniteSets, TLC

\* ---------------------------------------------------------------- bounds
\* Number of ShellTool.run invocations of one session.
MaxRuns == 2

\* ------------------------------------------------------- optional values
None == <<>>
Some(v) == <<v>>
IsSome(o) == Len(o) > 0
Get(o) == o[1]
\* a ?? b
OrElse(o, default) == IF IsSome(o) THEN Get(o) ELSE default

\* --------------------------------------------------------------- strings
\* The characters String.prototype.trim and /\s/ treat as white space.
WhiteSpace == {" ", "\t", "\n", "\r"}

RECURSIVE trimStart(_)
trimStart(s) ==
  IF s # <<>> /\ Head(s) \in WhiteSpace THEN trimStart(Tail(s)) ELSE s

RECURSIVE trimEnd(_)
trimEnd(s) ==
  IF s # <<>> /\ s[Len(s)] \in WhiteSpace
  THEN trimEnd(SubSeq(s, 1, Len(s) - 1))
  ELSE s

trim(s) == trimEnd(trimStart(s))

\* The letters of the model's alphabet that have an upper-case form, for the
\* case-insensitive regular expressions.
toLowerCase(c) ==
  CASE c = "H" -> "h" [] c = "T" -> "t" [] c = "P" -> "p" [] c = "S" -> "s"
    [] c = "C" -> "c" [] c = "F" -> "f" [] OTHER -> c

lower(s) == [i \in 1..Len(s) |-> toLowerCase(s[i])]

\* needle occurs in s as a contiguous substring
includes(s, needle) ==
  \E i \in 1..(Len(s) - Len(needle) + 1) :
    SubSeq(s, i, i + Len(needle) - 1) = needle

nonEmpty(s) == Len(s) > 0

\* Array.prototype.filter on an array of strings, keeping the non-empty ones
\* (filter(Boolean), filter((token) => token.length > 0)).
RECURSIVE filterNonEmpty(_)
filterNonEmpty(seq) ==
  IF seq = <<>> THEN <<>>
  ELSE IF nonEmpty(Head(seq)) THEN <<Head(seq)>> \o filterNonEmpty(Tail(seq))
  ELSE filterNonEmpty(Tail(seq))

\* Array.prototype.join
RECURSIVE join(_, _)
join(parts, sep) ==
  IF parts = <<>> THEN <<>>
  ELSE IF Len(parts) = 1 THEN parts[1]
  ELSE parts[1] \o sep \o join(Tail(parts), sep)

\* ------------------------------------------------------ risk classifier
NETWORK_COMMANDS ==
  { <<"c","u","r","l">>,
    <<"w","g","e","t">>,
    <<"h","t","t","p">>,
    <<"h","t","t","p","s">>,
    <<"f","t","p">>,
    <<"s","c","p">>,
    <<"s","s","h">>,
    <<"s","f","t","p">>,
    <<"r","s","y","n","c">>,
    <<"p","i","n","g">>,
    <<"n","c">>,
    <<"n","c","a","t">>,
    <<"n","e","t","c","a","t">>,
    <<"t","e","l","n","e","t">>,
    <<"d","i","g">>,
    <<"n","s","l","o","o","k","u","p">> }

PACKAGE_COMMANDS ==
  { <<"n","p","m">>,
    <<"p","n","p","m">>,
    <<"y","a","r","n">>,
    <<"p","i","p">>,
    <<"p","i","p","3">>,
    <<"p","o","e","t","r","y">>,
    <<"c","a","r","g","o">>,
    <<"b","r","e","w">>,
    <<"a","p","t">>,
    <<"a","p","t","-","g","e","t">>,
    <<"y","u","m">>,
    <<"d","n","f">>,
    <<"a","p","k">>,
    <<"p","a","c","m","a","n">>,
    <<"c","o","n","d","a">>,
    <<"g","e","m">>,
    <<"b","u","n","d","l","e">>,
    <<"b","u","n","d","l","e","r">>,
    <<"c","o","m","p","o","s","e","r">> }

SOURCE_CONTROL_COMMANDS ==
  { <<"g","i","t">>,
    <<"h","g">>,
    <<"m","e","r","c","u","r","i","a","l">>,
    <<"s","v","n">>,
    <<"b","z","r">>,
    <<"p","4">> }

CONTAINER_COMMANDS ==
  { <<"d","o","c","k","e","r">>,
    <<"p","o","d","m","a","n">>,
    <<"k","u","b","e","c","t","l">>,
    <<"h","e","l","m">>,
    <<"m","i","n","i","k","u","b","e">>,
    <<"n","e","r","d","c","t","l">> }

PACKAGE_VERBS ==
  { <<"i","n","s","t","a","l","l">>, <<"a","d","d">>, <<"u","p","g","r","a","d","e">>, <<"u","p","d","a","t","e">> }

SOURCE_CONTROL_VERBS ==
  { <<"c","l","o","n","e">>, <<"f","e","t","c","h">>, <<"p","u","l","l">>, <<"p","u","s","h">>, <<"r","e","m","o","t","e">> }

CONTAINER_VERBS ==
  { <<"p","u","l","l">>, <<"r","u","n">>, <<"p","u","s","h">>, <<"l","o","g","i","n">>, <<"b","u","i","l","d">> }


\* tokenizeShellCommand: one pass over the characters with the scanner state
\* (tokens, current, quote, escaping); quote is "" when no quote is open.
RECURSIVE scan(_, _, _, _, _, _)
scan(command, index, tokens, current, quote, escaping) ==
  IF index > Len(command)
  THEN IF Len(current) > 0 THEN Append(tokens, current) ELSE tokens
  ELSE
    LET char == command[index] IN
    IF escaping
    THEN scan(command, index + 1, tokens, Append(current, char), quote, FALSE)
    ELSE IF char = "\\"
    THEN scan(command, index + 1, tokens, current, quote, TRUE)
    ELSE IF quote # ""
    THEN IF char = quote
         THEN scan(command, index + 1, tokens, current, "", FALSE)
         ELSE scan(command, index + 1, tokens, Append(current, char), quote, FALSE)
    ELSE IF char = "\"" \/ char = "'"
    THEN scan(command, index + 1,
              IF Len(current) > 0 THEN Append(tokens, current) ELSE tokens,
              <<>>, char, FALSE)
    ELSE IF char \in WhiteSpace
    THEN scan(command, index + 1,
              IF Len(current) > 0 THEN Append(tokens, current) ELSE tokens,
              <<>>, "", FALSE)
    ELSE scan(command, index + 1, tokens, Append(current, char), "", FALSE)

tokenizeShellCommand(command) ==
  LET tokens == scan(command, 1, <<>>, <<>>, "", FALSE)
  IN filterNonEmpty([i \in 1..Len(tokens) |-> trim(tokens[i])])

\* Mutant: the verb may stand anywhere among the tokens, not only right
\* after the command token.
followedByAnywhere(tokens, commands, verbs) ==
  /\ \E index \in 1..Len(tokens) : tokens[index] \in commands
  /\ \E index \in 1..Len(tokens) : tokens[index] \in verbs

\* Mutant: the command token is not tested, a verb after any token counts.
followedByVerbOnly(tokens, commands, verbs) ==
  \E index \in 1..Len(tokens) :
    /\ index + 1 <= Len(tokens)
    /\ tokens[index + 1] \in verbs

\* tokens.some((token, index) => commands.has(token) && tokens[index + 1] is a verb)
followedBy(tokens, commands, verbs) ==
  \E index \in 1..Len(tokens) :
    /\ tokens[index] \in commands
    /\ index + 1 <= Len(tokens)
    /\ tokens[index + 1] \in verbs

\* Mutant: the level is decided from the token checks alone, before the two
\* URL checks add their reasons.
determineRiskLevelBeforeUrls(tokens, sanitizedCommand) ==
  LET tokenReasons ==
        (IF \E i \in 1..Len(tokens) : tokens[i] \in NETWORK_COMMANDS
         THEN <<"network">> ELSE <<>>)
        \o (IF followedBy(tokens, PACKAGE_COMMANDS, PACKAGE_VERBS)
            THEN <<"package-manager">> ELSE <<>>)
        \o (IF followedBy(tokens, SOURCE_CONTROL_COMMANDS, SOURCE_CONTROL_VERBS)
            THEN <<"remote-source-control">> ELSE <<>>)
        \o (IF followedBy(tokens, CONTAINER_COMMANDS, CONTAINER_VERBS)
            THEN <<"container-runtime">> ELSE <<>>)
      urlReasons ==
        (IF \/ includes(lower(sanitizedCommand), <<"h","t","t","p",":","/","/">>)
            \/ includes(lower(sanitizedCommand), <<"h","t","t","p","s",":","/","/">>)
         THEN <<"url-detected">> ELSE <<>>)
        \o (IF \/ includes(lower(sanitizedCommand), <<"s","c","p",":","/","/">>)
               \/ includes(lower(sanitizedCommand), <<"s","f","t","p",":","/","/">>)
            THEN <<"remote-filesystem">> ELSE <<>>)
  IN [level |-> IF Len(tokenReasons) > 0 THEN "external" ELSE "low",
      reasons |-> tokenReasons \o urlReasons]

\* The reasons in the insertion order of the Set the code collects them in.
determineRisk(tokens, sanitizedCommand) ==
  LET reasons ==
        (IF \E i \in 1..Len(tokens) : tokens[i] \in NETWORK_COMMANDS
         THEN <<"network">> ELSE <<>>)
        \o (IF followedBy(tokens, PACKAGE_COMMANDS, PACKAGE_VERBS)
            THEN <<"package-manager">> ELSE <<>>)
        \o (IF followedBy(tokens, SOURCE_CONTROL_COMMANDS, SOURCE_CONTROL_VERBS)
            THEN <<"remote-source-control">> ELSE <<>>)
        \o (IF followedBy(tokens, CONTAINER_COMMANDS, CONTAINER_VERBS)
            THEN <<"container-runtime">> ELSE <<>>)
        \o (IF \/ includes(lower(sanitizedCommand), <<"h","t","t","p",":","/","/">>)
               \/ includes(lower(sanitizedCommand), <<"h","t","t","p","s",":","/","/">>)
            THEN <<"url-detected">> ELSE <<>>)
        \o (IF \/ includes(lower(sanitizedCommand), <<"s","c","p",":","/","/">>)
               \/ includes(lower(sanitizedCommand), <<"s","f","t","p",":","/","/">>)
            THEN <<"remote-filesystem">> ELSE <<>>)
  IN [level |-> IF Len(reasons) > 0 THEN "external" ELSE "low",
      reasons |-> reasons]

analyzeShellCommand(command) ==
  LET sanitizedCommand == trim(command)
      tokens == tokenizeShellCommand(sanitizedCommand)
  IN [command |-> command,
      sanitizedCommand |-> sanitizedCommand,
      tokens |-> tokens,
      risk |-> determineRisk(tokens, sanitizedCommand)]

\* ------------------------------------------------------------- messages
\* A message is a sequence of text pieces whose concatenation is the text.
requiresApprovalMessage(rawCommand) ==
  <<"Command \"">> \o rawCommand
    \o <<"\" requires ", "approval", " but no ", "approval",
         " provider is configured.">>

deniedByProviderMessage(rawCommand) ==
  <<"Command \"">> \o rawCommand
    \o <<"\" was denied by the ", "approval", " provider.">>

deniedByUserMessage(command) ==
  <<"Command \"">> \o command \o <<"\" was denied by the user.">>

missingInputMessage ==
  <<"Shell tool requires a non-empty string \"command\" property.">>

unknownErrorMessage == <<"Unknown shell execution error">>

CancelledMessage == <<"Cancelled">>

exitedWithCodeMessage(exitCode) ==
  <<"Command exited with code ", IF IsSome(exitCode) THEN ToString(Get(exitCode)) ELSE "null">>

mentions(message, word) == \E i \in 1..Len(message) : message[i] = word

\* --------------------------------------------------- inputs of the model
\* Tool inputs: typeof is what typeof input.command gives, command is the
\* string when it is one.
Inputs ==
  { [typeof |-> "undefined", command |-> None],
    [typeof |-> "string", command |-> Some(<<" ">>)],
    [typeof |-> "string", command |-> Some(<<"l","s">>)],
    [typeof |-> "string", command |-> Some(<<"n","c">>)],
    [typeof |-> "string", command |-> Some(<<" ","n","c">>)] }

\* Reasons an approval surface gives with a denial.
DenyReasons == { None, Some(<<"nope">>) }

\* Reasons given to cancel and cancelAll (app.tsx resets with the second).
CancelReasons == { None, Some(<<"Conversation reset.">>) }

\* InteractiveApprovalDecision
Decisions ==
  { [type |-> "allow", scope |-> Some(s), reason |-> None] : s \in {"once", "session"} }
  \cup { [type |-> "deny", scope |-> None, reason |-> rsn] : rsn \in DenyReasons }

\* `approval-${approvalCounter}`
nextId(n) == <<"approval-", n>>

\* The ids the approval surface may name: every id issued and one never issued.
RequestIds == { nextId(n) : n \in 1..(MaxRuns + 1) }

Runs == 1..MaxRuns

\* What runSandboxedCommand settles with: a result, a ShellSandboxError
\* (with or without a partial result) or another error.
SandboxOutcomes ==
  { [settled |-> "resolve", error |-> "", message |-> <<>>,
     result |-> Some([stdout |-> <<"h","i","\n">>, stderr |-> <<>>,
                      exitCode |-> Some(0), signal |-> None])],
    [settled |-> "reject", error |-> "ShellSandboxError",
     message |-> <<"Command timed out after 5000ms">>, result |-> None],
    [settled |-> "reject", error |-> "Error",
     message |-> <<"EACCES: permission denied, mkdir">>, result |-> None] }

\* ------------------------------------------------------------ the state
VARIABLES
  approvalProvider,  \* ShellToolOptions.approvalProvider is configured
  requestListeners,  \* number of listeners onRequest registered for the request event
  approvalCounter,   \* the module-level id counter
  pending,           \* InteractiveApprovalProvider.pending: id -> entry
  approvedCommands,  \* InteractiveApprovalProvider.approvedCommands
  requestEvents,     \* per id, the request events emitted
  resolvedEvents,    \* per id, the resolved events emitted
  resolveCalls,      \* per id, how often the entry's resolve callback ran
  sessionAllowed,    \* history: the sanitized commands of the requests allowed
                     \* with scope session since the last resetSession
  pc,                \* per run, where ShellTool.run stands
  input,             \* per run, the ToolInput
  approvalId,        \* per run, the id its requestApproval call stored
  approval,          \* per run, what the requestApproval promise settled with
  sandboxCalls,      \* per run, the commands handed to runSandboxedCommand
  result             \* per run, the ToolExecutionResult returned

providerVars ==
  <<approvalCounter, pending, approvedCommands, requestEvents, resolvedEvents,
    resolveCalls, sessionAllowed, approval, approvalId>>

runVars == <<pc, input, sandboxCalls, result>>

\* The state of one runSandboxedCommand call (shell-sandbox.ts).
VARIABLES
  step,            \* where the call stands: "start", "created" (the directory
                   \* exists), "running" (the child is spawned), "finally"
                   \* (fs.rm is called), "returned", or "failed" (it threw
                   \* before the child was spawned)
  cwdOption,       \* options.cwd is given
  homeDirectory,   \* the scratch home directory: "none", "exists", "removed"
  completed,       \* let completed
  timeoutHandle,   \* the timer is armed (set and neither fired nor cleared)
  stdoutChunks,    \* const stdoutChunks
  stderrChunks,    \* const stderrChunks
  stdoutSize,      \* let stdoutSize
  stderrSize,      \* let stderrSize
  killCalls,       \* how often child.kill() was called
  settleCalls,     \* the outcomes handed to resolve and reject, in order
  sandboxPromise,  \* what the promise of line 48 settled with
  dataEvents,      \* how many data events the child's streams emitted
  errorEmitted,    \* the child emitted error
  closeEmitted,    \* the child emitted close
  removalAttempts, \* how often fs.rm was called for the scratch directory
  returned         \* what the caller of runSandboxedCommand received

sandboxVars ==
  <<step, cwdOption, homeDirectory, completed, timeoutHandle, stdoutChunks,
    stderrChunks, stdoutSize, stderrSize, killCalls, settleCalls, sandboxPromise,
    dataEvents, errorEmitted, closeEmitted, removalAttempts, returned>>

\* The command the classifier is applied to and what it returned.
VARIABLES
  shellCommand,    \* the command string handed to analyzeShellCommand
                   \* or to tokenizeShellCommand
  shellAnalysis,   \* what analyzeShellCommand returned for it
  shellTokens      \* what tokenizeShellCommand returned for it

riskVars == <<shellCommand, shellAnalysis, shellTokens>>

\* options.approvalProvider as the tests configure it: a stub whose
\* requestApproval returns a promise resolved with this value.  None: the
\* provider, if any, is the InteractiveApprovalProvider.
VARIABLE stubbedApproval

toolVars ==
  <<approvalProvider, requestListeners, providerVars, runVars, stubbedApproval>>

\* The argument and the return value of one createOutputPreview call.
VARIABLES
  previewOutput,   \* the output string handed to createOutputPreview
  preview          \* None before the call, then Some of the optional preview returned

previewVars == <<previewOutput, preview>>

\* createOutputPreview has not been called.
PreviewStart ==
  /\ previewOutput = None
  /\ preview = None

\* The state of the subsystems that follow the classifier in this module.
VARIABLES
  secondProvider,  \* a second InteractiveApprovalProvider of the same process
  createdIds       \* history: the ids nextId returned, in creation order,
                   \* each with the instance that asked for it

instanceVars == <<secondProvider, createdIds>>

\* The second instance as constructed; its promises and events are indexed
\* as the first instance's are.
SecondStart(callers, ids) ==
  [approvalCounter |-> 0,
   pending |-> <<>>,
   approvedCommands |-> {},
   requestEvents |-> [id \in ids |-> <<>>],
   resolvedEvents |-> [id \in ids |-> <<>>],
   resolveCalls |-> [id \in ids |-> 0],
   sessionAllowed |-> {},
   approval |-> [c \in callers |-> None],
   approvalId |-> [c \in callers |-> None],
   ret |-> None]

InstanceStart ==
  /\ secondProvider = SecondStart({}, {})
  /\ createdIds = <<>>

VARIABLES
  fileOnDisk,       \* the target file: None, or Some of its content
  fileBefore,       \* history: the file when WriteFileTool.run was called
  writeInput,       \* the input of the run: operations, ensureTrailingNewline
  writePc,          \* where WriteFileTool.run stands
  fileExists,       \* run's fileExists
  fileLines,        \* run's lines, after the operations
  hadTrailingNewline,  \* what splitIntoLines said of the file read
  recordedChanges,  \* run's changes
  writeFileCalls,   \* history: the contents handed to fs.writeFile
  writeResult       \* the ToolExecutionResult returned

writeFileVars ==
  <<fileOnDisk, fileBefore, writeInput, writePc, fileExists, fileLines,
    hadTrailingNewline, recordedChanges, writeFileCalls, writeResult>>

WriteFileStart ==
  /\ fileOnDisk = None
  /\ fileBefore = None
  /\ writeInput = None
  /\ writePc = "idle"
  /\ fileExists = TRUE
  /\ fileLines = <<>>
  /\ hadTrailingNewline = FALSE
  /\ recordedChanges = <<>>
  /\ writeFileCalls = <<>>
  /\ writeResult = None

VARIABLES
  history,          \* Agent.history
  agentPc,          \* where processUserMessage stands
  iteration,        \* its loop counter
  pendingToolCalls, \* the tool calls of the assistant message at hand
  toolCallIndex,    \* which of them executeTool was called for
  toolMessages,     \* processUserMessage's toolMessages
  onToolMessageCalls,  \* history: the arguments onToolMessage was called with
  toolEvents,       \* history: the starts and ends of executeTool, in order
  generateCalls,    \* history: how often llmClient.generate was called
  turnResult        \* the AgentTurnResult returned

\* The agent's variables but its history.
agentRest ==
  <<agentPc, iteration, pendingToolCalls, toolCallIndex, toolMessages,
    onToolMessageCalls, toolEvents, generateCalls, turnResult>>

agentVars == <<history, agentRest>>

AgentStart ==
  /\ history = <<>>
  /\ agentPc = "idle"
  /\ iteration = 0
  /\ pendingToolCalls = <<>>
  /\ toolCallIndex = 0
  /\ toolMessages = <<>>
  /\ onToolMessageCalls = <<>>
  /\ toolEvents = <<>>
  /\ generateCalls = 0
  /\ turnResult = None

VARIABLES
  listenerLog       \* history of the latest method call: what the calls made
                    \* inside event listeners returned, and what a cancelAll
                    \* started from and left

listenerVars == <<listenerLog>>

ListenerStart == listenerLog = <<>>

\* The variables of the subsystems specified after the preview.
laterVars == <<writeFileVars, agentVars, listenerVars>>

LaterStart ==
  /\ WriteFileStart
  /\ AgentStart
  /\ ListenerStart

remainingVars == <<previewVars, instanceVars, laterVars>>

RemainingStart ==
  /\ PreviewStart
  /\ InstanceStart
  /\ LaterStart

otherVars == <<sandboxVars, riskVars, stubbedApproval, remainingVars>>

\* No call of runSandboxedCommand has started.
SandboxStart ==
  /\ step = "start"
  /\ homeDirectory = "none"
  /\ completed = FALSE
  /\ timeoutHandle = FALSE
  /\ stdoutChunks = <<>>
  /\ stderrChunks = <<>>
  /\ stdoutSize = 0
  /\ stderrSize = 0
  /\ killCalls = 0
  /\ settleCalls = <<>>
  /\ sandboxPromise = None
  /\ dataEvents = 0
  /\ errorEmitted = FALSE
  /\ closeEmitted = FALSE
  /\ removalAttempts = 0
  /\ returned = None

\* analyzeShellCommand has not been called.
RiskStart ==
  /\ shellCommand = None
  /\ shellAnalysis = None
  /\ shellTokens = None

vars ==
  <<approvalProvider, requestListeners, approvalCounter, pending,
    approvedCommands, requestEvents, resolvedEvents, resolveCalls,
    sessionAllowed, pc, input, approvalId, approval, sandboxCalls, result,
    sandboxVars, riskVars, stubbedApproval, remainingVars>>

\* The provider's state, the promises it resolves and the events it emitted,
\* as one value the methods map to the next one; ret is the method's return.
provider ==
  [approvalCounter |-> approvalCounter,
   pending |-> pending,
   approvedCommands |-> approvedCommands,
   requestEvents |-> requestEvents,
   resolvedEvents |-> resolvedEvents,
   resolveCalls |-> resolveCalls,
   sessionAllowed |-> sessionAllowed,
   approval |-> approval,
   approvalId |-> approvalId,
   ret |-> None]

setProvider(P) ==
  /\ approvalCounter' = P.approvalCounter
  /\ pending' = P.pending
  /\ approvedCommands' = P.approvedCommands
  /\ requestEvents' = P.requestEvents
  /\ resolvedEvents' = P.resolvedEvents
  /\ resolveCalls' = P.resolveCalls
  /\ sessionAllowed' = P.sessionAllowed
  /\ approval' = P.approval
  /\ approvalId' = P.approvalId

\* ------------------------------------------ InteractiveApprovalProvider
\* Mutant: the cache is keyed by the raw command.
buildCacheKeyRaw(request) == request.command

buildCacheKey(request) == request.analysis.sanitizedCommand

\* Map.set / Map.delete
mapSet(map, key, value) ==
  [k \in DOMAIN map \cup {key} |-> IF k = key THEN value ELSE map[k]]

mapDelete(map, key) == [k \in DOMAIN map \ {key} |-> map[k]]

\* A promise settles once: later resolve calls leave its value alone.
resolvePromise(promise, value) == IF IsSome(promise) THEN promise ELSE Some(value)

\* Mutant: any cached key allows every request.
requestApprovalAnyCached(P, r, request, listeners) ==
  LET cacheKey == request.analysis.sanitizedCommand IN
  IF P.approvedCommands # {}
  THEN [P EXCEPT
          !.approval[r] = Some([decision |-> "allow", scope |-> Some("session"),
                                reason |-> None])]
  ELSE
    LET counter == P.approvalCounter + 1
        id == nextId(counter)
    IN [P EXCEPT
          !.approvalCounter = counter,
          !.pending = mapSet(@, id, [request |-> request, resolve |-> r,
                                     cacheKey |-> cacheKey]),
          !.approvalId[r] = Some(id),
          !.requestEvents[id] =
             Append(@, [id |-> id, request |-> request, listeners |-> listeners])]

\* Mutant: the incremented counter is not stored, so every miss builds its id
\* from the same counter value.
requestApprovalStaleCounter(P, r, request, listeners) ==
  LET cacheKey == request.analysis.sanitizedCommand IN
  IF cacheKey \in P.approvedCommands
  THEN [P EXCEPT
          !.approval[r] = Some([decision |-> "allow", scope |-> Some("session"),
                                reason |-> None])]
  ELSE
    LET id == nextId(P.approvalCounter + 1)
    IN [P EXCEPT
          !.pending = mapSet(@, id, [request |-> request, resolve |-> r,
                                     cacheKey |-> cacheKey]),
          !.approvalId[r] = Some(id),
          !.requestEvents[id] =
             Append(@, [id |-> id, request |-> request, listeners |-> listeners])]

\* requestApproval called by run r; listeners is the number of request
\* listeners at the time of the call.
requestApproval(P, r, request, listeners) ==
  LET cacheKey == buildCacheKey(request) IN
  IF cacheKey \in P.approvedCommands
  THEN [P EXCEPT
          !.approval[r] = Some([decision |-> "allow", scope |-> Some("session"),
                                reason |-> None])]
  ELSE
    LET counter == P.approvalCounter + 1
        id == nextId(counter)
    IN [P EXCEPT
          !.approvalCounter = counter,
          !.pending = mapSet(@, id, [request |-> request, resolve |-> r,
                                     cacheKey |-> cacheKey]),
          !.approvalId[r] = Some(id),
          !.requestEvents[id] =
             Append(@, [id |-> id, request |-> request, listeners |-> listeners])]

\* Mutant: a denial without a reason is passed on without the default reason.
mapDecisionNoDefault(entry, decision) ==
  IF decision.type = "allow"
  THEN [decision |-> "allow", scope |-> decision.scope, reason |-> None]
  ELSE [decision |-> "deny", scope |-> None, reason |-> decision.reason]

mapDecision(entry, decision) ==
  IF decision.type = "allow"
  THEN [decision |-> "allow", scope |-> decision.scope, reason |-> None]
  ELSE [decision |-> "deny", scope |-> None,
        reason |-> Some(OrElse(decision.reason,
                               deniedByUserMessage(entry.request.command)))]

\* Mutant: every allow, also one for a single run, fills the session cache.
respondFoundCachesEveryAllow(P, requestId, decision) ==
  LET entry == P.pending[requestId]
      mapped == mapDecision(entry, decision)
  IN [P EXCEPT
        !.pending = mapDelete(@, requestId),
        !.approvedCommands =
           IF decision.type = "allow" THEN @ \cup {entry.cacheKey} ELSE @,
        !.approval[entry.resolve] = resolvePromise(@, mapped),
        !.resolveCalls[requestId] = @ + 1,
        !.sessionAllowed =
           IF decision.type = "allow" /\ decision.scope = Some("session")
           THEN @ \cup {entry.request.analysis.sanitizedCommand} ELSE @,
        !.resolvedEvents[requestId] =
           Append(@, [id |-> requestId, decision |-> decision, result |-> mapped]),
        !.ret = Some(TRUE)]

\* respond once the entry was found: delete, map, cache, resolve, emit.
respondFound(P, requestId, decision) ==
  LET entry == P.pending[requestId]
      mapped == mapDecision(entry, decision)
  IN [P EXCEPT
        !.pending = mapDelete(@, requestId),
        !.approvedCommands =
           IF decision.type = "allow" /\ decision.scope = Some("session")
           THEN @ \cup {entry.cacheKey} ELSE @,
        !.approval[entry.resolve] = resolvePromise(@, mapped),
        !.resolveCalls[requestId] = @ + 1,
        !.sessionAllowed =
           IF decision.type = "allow" /\ decision.scope = Some("session")
           THEN @ \cup {entry.request.analysis.sanitizedCommand} ELSE @,
        !.resolvedEvents[requestId] =
           Append(@, [id |-> requestId, decision |-> decision, result |-> mapped]),
        !.ret = Some(TRUE)]

\* Mutant: the entry stays in the pending map.
respondKeepsEntry(P, requestId, decision) ==
  IF requestId \notin DOMAIN P.pending
  THEN [P EXCEPT !.ret = Some(FALSE)]
  ELSE [respondFound(P, requestId, decision) EXCEPT !.pending = P.pending]

\* Mutant: an unknown id is answered with true.
respondAlwaysTrue(P, requestId, decision) ==
  IF requestId \notin DOMAIN P.pending
  THEN [P EXCEPT !.ret = Some(TRUE)]
  ELSE respondFound(P, requestId, decision)

\* Mutant: an allow for the session also resolves every other pending
\* request with the same cache key.
RECURSIVE respondSameKey(_, _, _, _)
respondSameKey(P, n, key, decision) ==
  IF n > P.approvalCounter THEN P
  ELSE respondSameKey(
         IF nextId(n) \in DOMAIN P.pending /\ P.pending[nextId(n)].cacheKey = key
         THEN respondFound(P, nextId(n), decision) ELSE P,
         n + 1, key, decision)

respondResolvesSameKey(P, requestId, decision) ==
  IF requestId \notin DOMAIN P.pending
  THEN [P EXCEPT !.ret = Some(FALSE)]
  ELSE IF decision.type = "allow" /\ decision.scope = Some("session")
  THEN respondSameKey(P, 1, P.pending[requestId].cacheKey, decision)
  ELSE respondFound(P, requestId, decision)

respond(P, requestId, decision) ==
  IF requestId \notin DOMAIN P.pending
  THEN [P EXCEPT !.ret = Some(FALSE)]
  ELSE respondFound(P, requestId, decision)

cancel(P, requestId, reason) ==
  respond(P, requestId,
          [type |-> "deny", scope |-> None,
           reason |-> Some(OrElse(reason, CancelledMessage))])

\* Array.from(this.pending.keys()): a Map lists its keys in insertion order,
\* which is the order of the counter values the ids were built from.
RECURSIVE pendingKeysFrom(_, _)
pendingKeysFrom(P, n) ==
  IF n > P.approvalCounter THEN <<>>
  ELSE (IF nextId(n) \in DOMAIN P.pending THEN <<nextId(n)>> ELSE <<>>)
         \o pendingKeysFrom(P, n + 1)

pendingKeys(P) == pendingKeysFrom(P, 1)

\* ids.forEach((id) => this.cancel(id, reason))
RECURSIVE cancelEach(_, _, _)
cancelEach(P, ids, reason) ==
  IF ids = <<>> THEN P
  ELSE cancelEach(cancel(P, Head(ids), reason), Tail(ids), reason)

\* Mutant: only the first pending id is cancelled.
cancelAllFirstOnly(P, reason) ==
  LET ids == pendingKeys(P) IN
  [cancelEach(P, IF ids = <<>> THEN ids ELSE <<Head(ids)>>, reason)
     EXCEPT !.ret = None]

cancelAll(P, reason) == [cancelEach(P, pendingKeys(P), reason) EXCEPT !.ret = None]

\* Mutant: resetSession also starts the ids anew.
resetSessionResetsCounter(P) ==
  [P EXCEPT !.approvedCommands = {}, !.sessionAllowed = {}, !.approvalCounter = 0,
            !.ret = None]

\* Mutant: resetSession also forgets the pending requests.
resetSessionClearsPending(P) ==
  [P EXCEPT !.approvedCommands = {}, !.sessionAllowed = {}, !.pending = <<>>,
            !.ret = None]

resetSession(P) ==
  [P EXCEPT !.approvedCommands = {}, !.sessionAllowed = {}, !.ret = None]

\* ------------------------------------------------------------ ShellTool
formatSandboxResult(sandboxResult) ==
  trim(join(filterNonEmpty(<<sandboxResult.stdout, sandboxResult.stderr>>), <<"\n">>))

\* The early return of run for a missing, non-string or blank command.
missingInputResult ==
  [output |-> <<>>, error |-> Some(missingInputMessage),
   message |-> <<"Shell command aborted: missing input.">>, tone |-> "error",
   details |-> Some(missingInputMessage), exitCode |-> None, signal |-> None,
   risk |-> None]

\* Mutant: a command that did not exit with code 0 is reported as an error.
successResultFailsOnExitCode(analysis, sandboxResult) ==
  [output |-> formatSandboxResult(sandboxResult),
   error |-> IF sandboxResult.exitCode = Some(0) THEN None
             ELSE Some(exitedWithCodeMessage(sandboxResult.exitCode)),
   message |-> IF sandboxResult.exitCode = Some(0) THEN <<>>
               ELSE exitedWithCodeMessage(sandboxResult.exitCode),
   tone |-> IF sandboxResult.exitCode = Some(0) THEN "info" ELSE "error",
   details |-> None,
   exitCode |-> sandboxResult.exitCode, signal |-> sandboxResult.signal,
   risk |-> Some(analysis.risk.level)]

\* The result run returns when the sandbox resolved; exitCode, signal and
\* risk are entries of display.metadata (a null signal is left out).
successResult(analysis, sandboxResult) ==
  [output |-> formatSandboxResult(sandboxResult), error |-> None,
   message |-> IF sandboxResult.exitCode = Some(0) THEN <<>>
               ELSE exitedWithCodeMessage(sandboxResult.exitCode),
   tone |-> "info", details |-> None,
   exitCode |-> sandboxResult.exitCode, signal |-> sandboxResult.signal,
   risk |-> Some(analysis.risk.level)]

\* The catch branch of run for a ShellSandboxError.
sandboxErrorResult(analysis, message) ==
  [output |-> <<>>, error |-> Some(message), message |-> <<>>, tone |-> "error",
   details |-> Some(message), exitCode |-> None, signal |-> None,
   risk |-> Some(analysis.risk.level)]

\* The catch branch of run for any other error.
otherErrorResult(message) ==
  [output |-> <<>>, error |-> Some(message), message |-> <<>>, tone |-> "error",
   details |-> Some(message), exitCode |-> None, signal |-> None, risk |-> None]

rawCommandOf(r) == Get(input[r].command)

\* The command strings among the inputs, and the analysis of each (the
\* classifier is a pure function of the string).
CommandStrings == { Get(i.command) : i \in { j \in Inputs : IsSome(j.command) } }

Analysis == [command \in CommandStrings |-> analyzeShellCommand(command)]

\* The request ensureApproval hands to the provider.
approvalRequest(rawCommand) ==
  [command |-> rawCommand, analysis |-> Analysis[rawCommand]]

\* Mutant: with a provider configured, approval is requested for every
\* command, whatever its risk.
approvalStepAsksAlways(analysis) ==
  IF approvalProvider THEN "request"
  ELSE IF analysis.risk.level # "external" THEN "skip"
  ELSE "missing"

\* Mutant: without a provider ensureApproval returns as for a low risk.
approvalStepSilentAllow(analysis) ==
  IF analysis.risk.level # "external" THEN "skip"
  ELSE IF ~approvalProvider THEN "skip"
  ELSE "request"

\* The first branches of ensureApproval: return at once ("skip"), throw for
\* want of a provider ("missing") or ask the provider ("request").
approvalStep(analysis) ==
  IF analysis.risk.level # "external" THEN "skip"
  ELSE IF ~approvalProvider THEN "missing"
  ELSE "request"

\* Mutant: the decision is compared with a value no result carries.
deniedMisspelled(approvalResult) == approvalResult.decision = "denied"

\* result.decision !== 'allow'
denied(approvalResult) == approvalResult.decision # "allow"

\* Mutant: the command is not trimmed before its length is tested.
missingCommandUntrimmed(toolInput) ==
  toolInput.typeof # "string" \/ Len(Get(toolInput.command)) = 0

\* typeof rawCommand !== 'string' || rawCommand.trim().length === 0
missingCommand(toolInput) ==
  toolInput.typeof # "string" \/ Len(trim(Get(toolInput.command))) = 0

\* ShellTool.run up to its first suspension: the input check, the analysis
\* and ensureApproval up to the await of provider.requestApproval.
run(r, toolInput) ==
  /\ pc[r] = "idle"
  /\ \A q \in Runs : q < r => pc[q] # "idle"
  /\ input' = [input EXCEPT ![r] = toolInput]
  /\ UNCHANGED <<otherVars, approvalProvider, requestListeners, sandboxCalls>>
  /\ IF missingCommand(toolInput)
     THEN /\ pc' = [pc EXCEPT ![r] = "done"]
          /\ result' = [result EXCEPT ![r] = Some(missingInputResult)]
          /\ UNCHANGED providerVars
     ELSE
       LET rawCommand == Get(toolInput.command)
           analysis == Analysis[rawCommand]
       IN IF approvalStep(analysis) = "skip"
          THEN /\ pc' = [pc EXCEPT ![r] = "execute"]
               /\ UNCHANGED <<result, providerVars>>
          ELSE IF approvalStep(analysis) = "missing"
          THEN /\ pc' = [pc EXCEPT ![r] = "done"]
               /\ result' = [result EXCEPT ![r] =
                    Some(sandboxErrorResult(analysis,
                                            requiresApprovalMessage(rawCommand)))]
               /\ UNCHANGED providerVars
          ELSE /\ pc' = [pc EXCEPT ![r] = "awaitApproval"]
               /\ IF IsSome(stubbedApproval)
                  THEN /\ approval' = [approval EXCEPT ![r] = stubbedApproval]
                       /\ UNCHANGED <<approvalCounter, pending, approvedCommands,
                                      requestEvents, resolvedEvents, resolveCalls,
                                      sessionAllowed, approvalId>>
                  ELSE setProvider(requestApproval(provider, r,
                                                   approvalRequest(rawCommand),
                                                   requestListeners))
               /\ UNCHANGED result

\* Mutant: the provider's reason is dropped for the default message.
denialMessageDefaultOnly(approvalResult, rawCommand) ==
  deniedByProviderMessage(rawCommand)

\* result.reason ?? `Command "${rawCommand}" was denied by the approval provider.`
denialMessage(approvalResult, rawCommand) ==
  OrElse(approvalResult.reason, deniedByProviderMessage(rawCommand))

\* ensureApproval after the provider's promise settled.
ensureApproval(r) ==
  /\ pc[r] = "awaitApproval"
  /\ IsSome(approval[r])
  /\ UNCHANGED <<otherVars, approvalProvider, requestListeners, input, sandboxCalls, providerVars>>
  /\ LET approvalResult == Get(approval[r]) IN
     IF denied(approvalResult)
     THEN /\ pc' = [pc EXCEPT ![r] = "done"]
          /\ result' = [result EXCEPT ![r] =
               Some(sandboxErrorResult(
                      Analysis[rawCommandOf(r)],
                      denialMessage(approvalResult, rawCommandOf(r))))]
     ELSE /\ pc' = [pc EXCEPT ![r] = "execute"]
          /\ UNCHANGED result

\* Mutant: the sandbox is handed the sanitized command.
executeCommandSanitized(r) ==
  /\ pc[r] = "execute"
  /\ pc' = [pc EXCEPT ![r] = "sandbox"]
  /\ sandboxCalls' = [sandboxCalls EXCEPT ![r] = Append(@, trim(rawCommandOf(r)))]
  /\ UNCHANGED <<otherVars, approvalProvider, requestListeners, input, result, providerVars>>

\* executeCommand: the command is handed to runSandboxedCommand.
executeCommand(r) ==
  /\ pc[r] = "execute"
  /\ pc' = [pc EXCEPT ![r] = "sandbox"]
  /\ sandboxCalls' = [sandboxCalls EXCEPT ![r] = Append(@, rawCommandOf(r))]
  /\ UNCHANGED <<otherVars, approvalProvider, requestListeners, input, result, providerVars>>

\* runSandboxedCommand settles and run returns its result.
sandboxSettles(r, outcome) ==
  /\ pc[r] = "sandbox"
  /\ pc' = [pc EXCEPT ![r] = "done"]
  /\ LET analysis == Analysis[rawCommandOf(r)] IN
     result' = [result EXCEPT ![r] =
       Some(IF outcome.settled = "resolve"
            THEN successResult(analysis, Get(outcome.result))
            ELSE IF outcome.error = "ShellSandboxError"
            THEN sandboxErrorResult(analysis, outcome.message)
            ELSE otherErrorResult(outcome.message))]
  /\ UNCHANGED <<otherVars, approvalProvider, requestListeners, input, sandboxCalls, providerVars>>

\* ---------------------------------- the approval surface's calls (the UI)
\* A call of respond or cancel for an id that is not pending returns false
\* and assigns nothing (respond's first branch): a step that leaves every
\* variable unchanged.  The actions are the calls that find their entry.
callRespond(requestId, decision) ==
  LET P == respond(provider, requestId, decision) IN
  /\ requestId \in DOMAIN pending
  /\ setProvider(P)
  /\ UNCHANGED <<otherVars, approvalProvider, requestListeners, runVars>>

callCancel(requestId, reason) ==
  LET P == cancel(provider, requestId, reason) IN
  /\ requestId \in DOMAIN pending
  /\ setProvider(P)
  /\ UNCHANGED <<otherVars, approvalProvider, requestListeners, runVars>>

callCancelAll(reason) ==
  LET P == cancelAll(provider, reason) IN
  /\ setProvider(P)
  /\ UNCHANGED <<otherVars, approvalProvider, requestListeners, runVars>>

callResetSession ==
  LET P == resetSession(provider) IN
  /\ setProvider(P)
  /\ UNCHANGED <<otherVars, approvalProvider, requestListeners, runVars>>

\* ------------------------------------------------------- specification
\* No run of ShellTool has started and the provider is as constructed.
ToolStart ==
  /\ approvalCounter = 0
  /\ pending = <<>>
  /\ approvedCommands = {}
  /\ requestEvents = [id \in RequestIds |-> <<>>]
  /\ resolvedEvents = [id \in RequestIds |-> <<>>]
  /\ resolveCalls = [id \in RequestIds |-> 0]
  /\ sessionAllowed = {}
  /\ pc = [r \in Runs |-> "idle"]
  /\ input = [r \in Runs |-> [typeof |-> "undefined", command |-> None]]
  /\ approvalId = [r \in Runs |-> None]
  /\ approval = [r \in Runs |-> None]
  /\ sandboxCalls = [r \in Runs |-> <<>>]
  /\ result = [r \in Runs |-> None]

Init ==
  /\ approvalProvider \in BOOLEAN
  /\ requestListeners \in (IF approvalProvider THEN {0, 1} ELSE {0})
  /\ ToolStart
  /\ stubbedApproval = None
  /\ cwdOption = TRUE
  /\ SandboxStart
  /\ RemainingStart
  /\ RiskStart

Next ==
  \/ \E r \in Runs, toolInput \in Inputs : run(r, toolInput)
  \/ \E r \in Runs : ensureApproval(r)
  \/ \E r \in Runs : executeCommand(r)
  \/ \E r \in Runs, outcome \in SandboxOutcomes : sandboxSettles(r, outcome)
  \/ \E requestId \in RequestIds, decision \in Decisions : callRespond(requestId, decision)
  \/ \E requestId \in RequestIds, reason \in CancelReasons : callCancel(requestId, reason)
  \/ \E reason \in CancelReasons : callCancelAll(reason)
  \/ callResetSession

Spec == Init /\ [][Next]_vars

\* ================================================= runSandboxedCommand
\* shell-sandbox.ts.  One call is followed from its first line to the value
\* its caller receives; the timer and the child's events fire in any order.

\* options.maxBuffer: the cap on each stream, in bytes.
MaxBuffer == 2

\* How many data events the child's two streams emit at most.
MaxDataEvents == 3

\* options.timeoutMs as it appears in the timeout message.
timeoutMs == "5000"

\* Bytes are written in hexadecimal: 61 is "a", c3 a9 is the two-byte
\* encoding of U+00E9, and neither c3 nor a9 alone is a character.
\* The chunks a stream may deliver.
Chunks == { <<"61">>, <<"c3">>, <<"a9">>, <<"61", "61">> }

Streams == {"stdout", "stderr"}

\* The (code, signal) pairs the close event may carry.
ExitStatuses ==
  { [code |-> Some(0), signal |-> None],
    [code |-> Some(1), signal |-> None],
    [code |-> None, signal |-> Some("SIGTERM")] }

\* Buffer.concat
RECURSIVE concat(_)
concat(chunks) ==
  IF chunks = <<>> THEN <<>> ELSE Head(chunks) \o concat(Tail(chunks))

\* Buffer.toString('utf8'): a well-formed sequence becomes its character,
\* every other byte becomes U+FFFD.
RECURSIVE toString(_)
toString(bytes) ==
  IF bytes = <<>> THEN <<>>
  ELSE IF Head(bytes) = "61" THEN <<"a">> \o toString(Tail(bytes))
  ELSE IF Head(bytes) = "c3" /\ Len(bytes) >= 2 /\ bytes[2] = "a9"
       THEN <<"U+00E9">> \o toString(Tail(Tail(bytes)))
  ELSE <<"U+FFFD">> \o toString(Tail(bytes))

\* `Command timed out after ${timeoutMs}ms`
timedOutMessage == <<"Command timed out after ", timeoutMs, "ms">>

\* `Sandbox ${stream} exceeded ${maxBuffer} bytes`
exceededMessage(stream) ==
  <<"Sandbox ", stream, " exceeded ", ToString(MaxBuffer), " bytes">>

\* error.message of the error event of a child that could not be spawned.
spawnErrorMessage == <<"spawn /bin/bash ENOENT">>

\* The message of the error fs.mkdir rejects with.
mkdirErrorMessage == <<"EACCES: permission denied, mkdir">>

\* The message of the error process.cwd() throws when the working directory
\* of the process no longer exists.
cwdErrorMessage == <<"ENOENT: no such file or directory, uv_cwd">>

\* The message of the error fs.rm rejects with.
rmErrorMessage == <<"EBUSY: resource busy or locked, rm">>

\* resolve(result)
resolved(sandboxResult) ==
  [settled |-> "resolve", error |-> "", message |-> <<>>,
   result |-> Some(sandboxResult)]

\* reject(new ShellSandboxError(message, result)); result is optional.
rejected(message, partialResult) ==
  [settled |-> "reject", error |-> "ShellSandboxError", message |-> message,
   result |-> partialResult]

\* An error other than ShellSandboxError reaching the caller.
thrown(message) ==
  [settled |-> "reject", error |-> "Error", message |-> message, result |-> None]

\* The closure state of the promise executor as one value; the handlers map
\* it to the next one.
sandbox ==
  [completed |-> completed, timeoutHandle |-> timeoutHandle,
   stdoutChunks |-> stdoutChunks, stderrChunks |-> stderrChunks,
   stdoutSize |-> stdoutSize, stderrSize |-> stderrSize,
   killCalls |-> killCalls, settleCalls |-> settleCalls,
   promise |-> sandboxPromise]

setSandbox(S) ==
  /\ completed' = S.completed
  /\ timeoutHandle' = S.timeoutHandle
  /\ stdoutChunks' = S.stdoutChunks
  /\ stderrChunks' = S.stderrChunks
  /\ stdoutSize' = S.stdoutSize
  /\ stderrSize' = S.stderrSize
  /\ killCalls' = S.killCalls
  /\ settleCalls' = S.settleCalls
  /\ sandboxPromise' = S.promise

\* resolve or reject of the promise: the call is recorded, and the promise
\* takes the value if it has none yet.
settle(S, value) ==
  [S EXCEPT !.settleCalls = Append(@, value),
            !.promise = resolvePromise(@, value)]

\* clearTimeout(timeoutHandle)
clearTimeout(S) == [S EXCEPT !.timeoutHandle = FALSE]

\* Mutant: finish without the completed check.
finishUnguarded(S, sandboxResult) ==
  settle([S EXCEPT !.completed = TRUE], resolved(sandboxResult))

\* const finish
finish(S, sandboxResult) ==
  IF S.completed THEN S
  ELSE settle([S EXCEPT !.completed = TRUE], resolved(sandboxResult))

\* child.kill(); child.killed is false until the first call.
kill(S) == [S EXCEPT !.killCalls = @ + 1]

\* Mutant: abort rejects without killing the child.
abortWithoutKill(S, message, partialResult) ==
  IF S.completed THEN S
  ELSE settle([S EXCEPT !.completed = TRUE], rejected(message, partialResult))

\* const abort
abort(S, message, partialResult) ==
  IF S.completed THEN S
  ELSE LET C == [S EXCEPT !.completed = TRUE]
           K == IF C.killCalls = 0 THEN kill(C) ELSE C
       IN settle(K, rejected(message, partialResult))

\* The setTimeout callback; the timer is no longer armed once it fired.
onTimeout(S) == abort([S EXCEPT !.timeoutHandle = FALSE], timedOutMessage, None)

\* child.once('error', ...)
onError(S, message) == abort(clearTimeout(S), message, None)

\* The partial result built at lines 104-109.
partialResultOf(S) ==
  [stdout |-> toString(concat(S.stdoutChunks)),
   stderr |-> toString(concat(S.stderrChunks)),
   exitCode |-> None, signal |-> None]

\* Mutant: the chunk is stored before the size is checked.
onDataPushFirst(S, stream, chunk) ==
  LET currentSize == IF stream = "stdout" THEN S.stdoutSize ELSE S.stderrSize
      nextSize == currentSize + Len(chunk)
      pushed == IF stream = "stdout"
                THEN [S EXCEPT !.stdoutChunks = Append(@, chunk), !.stdoutSize = nextSize]
                ELSE [S EXCEPT !.stderrChunks = Append(@, chunk), !.stderrSize = nextSize]
  IN IF nextSize > MaxBuffer
     THEN abort(clearTimeout(pushed), exceededMessage(stream), Some(partialResultOf(pushed)))
     ELSE pushed

\* Mutant: a chunk that brings its stream to exactly the cap is refused.
onDataRejectsAtCap(S, stream, chunk) ==
  LET currentSize == IF stream = "stdout" THEN S.stdoutSize ELSE S.stderrSize
      nextSize == currentSize + Len(chunk)
  IN IF nextSize >= MaxBuffer
     THEN abort(clearTimeout(S), exceededMessage(stream), Some(partialResultOf(S)))
     ELSE IF stream = "stdout"
          THEN [S EXCEPT !.stdoutChunks = Append(@, chunk), !.stdoutSize = nextSize]
          ELSE [S EXCEPT !.stderrChunks = Append(@, chunk), !.stderrSize = nextSize]

\* const onData, for the stream's chunks, getSize and setSize
onData(S, stream, chunk) ==
  LET currentSize == IF stream = "stdout" THEN S.stdoutSize ELSE S.stderrSize
      nextSize == currentSize + Len(chunk)
  IN IF nextSize > MaxBuffer
     THEN abort(clearTimeout(S), exceededMessage(stream), Some(partialResultOf(S)))
     ELSE IF stream = "stdout"
          THEN [S EXCEPT !.stdoutChunks = Append(@, chunk), !.stdoutSize = nextSize]
          ELSE [S EXCEPT !.stderrChunks = Append(@, chunk), !.stderrSize = nextSize]

\* child.once('close', ...)
onClose(S, code, signal) ==
  finish(clearTimeout(S),
         [stdout |-> toString(concat(S.stdoutChunks)),
          stderr |-> toString(concat(S.stderrChunks)),
          exitCode |-> code, signal |-> signal])

\* Mutant: the error of fs.rm is not caught.
cleanupRethrows(rmFails) ==
  [removed |-> ~rmFails, error |-> IF rmFails THEN Some(thrown(rmErrorMessage)) ELSE None]

\* cleanupTemporaryDirectory once fs.rm settled: whether the directory is
\* gone and the error that leaves the function (none: the catch is empty).
cleanupTemporaryDirectory(rmFails) == [removed |-> ~rmFails, error |-> None]

\* try { return await promise } finally { await cleanup }: an error leaving
\* the finally block replaces the settled value.
tryFinally(settledValue, cleanup) ==
  IF IsSome(cleanup.error) THEN Get(cleanup.error) ELSE settledValue

spawned == step \in {"running", "finally", "returned"}

childVars == <<dataEvents, errorEmitted, closeEmitted>>

closureVars ==
  <<completed, timeoutHandle, stdoutChunks, stderrChunks, stdoutSize,
    stderrSize, killCalls, settleCalls, sandboxPromise>>

\* runSandboxedCommand up to the await of createTemporaryHomeDirectory, and
\* what fs.mkdir did.
createTemporaryHomeDirectory(mkdirFails) ==
  /\ step = "start"
  /\ IF mkdirFails
     THEN /\ step' = "failed"
          /\ returned' = Some(thrown(mkdirErrorMessage))
          /\ UNCHANGED homeDirectory
     ELSE /\ step' = "created"
          /\ homeDirectory' = "exists"
          /\ UNCHANGED returned
  /\ UNCHANGED <<cwdOption, closureVars, childVars, removalAttempts>>
  /\ UNCHANGED <<toolVars, riskVars, remainingVars>>

\* Lines 38-83: the environment, options.cwd ?? process.cwd(), the spawn and
\* the timer.  process.cwd() is called only without options.cwd and throws
\* when the working directory of the process is gone.
spawnChild(cwdThrows) ==
  /\ step = "created"
  /\ IF ~cwdOption /\ cwdThrows
     THEN /\ step' = "failed"
          /\ returned' = Some(thrown(cwdErrorMessage))
          /\ UNCHANGED timeoutHandle
     ELSE /\ step' = "running"
          /\ timeoutHandle' = TRUE
          /\ UNCHANGED returned
  /\ UNCHANGED <<cwdOption, homeDirectory, completed, stdoutChunks, stderrChunks,
                 stdoutSize, stderrSize, killCalls, settleCalls, sandboxPromise,
                 childVars, removalAttempts>>
  /\ UNCHANGED <<toolVars, riskVars, remainingVars>>

\* The timer expires.
timeoutExpires ==
  /\ spawned
  /\ timeoutHandle
  /\ setSandbox(onTimeout(sandbox))
  /\ UNCHANGED <<step, cwdOption, homeDirectory, childVars, removalAttempts, returned>>
  /\ UNCHANGED <<toolVars, riskVars, remainingVars>>

\* The child emits error.
childError ==
  /\ spawned
  /\ ~errorEmitted
  /\ errorEmitted' = TRUE
  /\ setSandbox(onError(sandbox, spawnErrorMessage))
  /\ UNCHANGED <<step, cwdOption, homeDirectory, dataEvents, closeEmitted,
                 removalAttempts, returned>>
  /\ UNCHANGED <<toolVars, riskVars, remainingVars>>

\* One of the child's streams emits data; a closed child emits none.
childData(stream, chunk) ==
  /\ spawned
  /\ ~closeEmitted
  /\ dataEvents < MaxDataEvents
  /\ dataEvents' = dataEvents + 1
  /\ setSandbox(onData(sandbox, stream, chunk))
  /\ UNCHANGED <<step, cwdOption, homeDirectory, errorEmitted, closeEmitted,
                 removalAttempts, returned>>
  /\ UNCHANGED <<toolVars, riskVars, remainingVars>>

\* The child emits close.
childClose(status) ==
  /\ spawned
  /\ ~closeEmitted
  /\ status.signal = None \/ killCalls > 0
  /\ closeEmitted' = TRUE
  /\ setSandbox(onClose(sandbox, status.code, status.signal))
  /\ UNCHANGED <<step, cwdOption, homeDirectory, dataEvents, errorEmitted,
                 removalAttempts, returned>>
  /\ UNCHANGED <<toolVars, riskVars, remainingVars>>

\* The promise settled: the finally block calls cleanupTemporaryDirectory,
\* which calls fs.rm.
enterFinally ==
  /\ step = "running"
  /\ IsSome(sandboxPromise)
  /\ step' = "finally"
  /\ removalAttempts' = removalAttempts + 1
  /\ UNCHANGED <<cwdOption, homeDirectory, closureVars, childVars, returned>>
  /\ UNCHANGED <<toolVars, riskVars, remainingVars>>

\* fs.rm settled: cleanupTemporaryDirectory returns and the caller receives
\* what the try block settled with.
leaveFinally(rmFails) ==
  LET cleanup == cleanupTemporaryDirectory(rmFails) IN
  /\ step = "finally"
  /\ step' = "returned"
  /\ homeDirectory' = IF cleanup.removed THEN "removed" ELSE "exists"
  /\ returned' = Some(tryFinally(Get(sandboxPromise), cleanup))
  /\ UNCHANGED <<cwdOption, closureVars, childVars, removalAttempts>>
  /\ UNCHANGED <<toolVars, riskVars, remainingVars>>

InitSandbox ==
  /\ approvalProvider = FALSE
  /\ requestListeners = 0
  /\ stubbedApproval = None
  /\ ToolStart
  /\ RiskStart
  /\ cwdOption \in BOOLEAN
  /\ SandboxStart
  /\ RemainingStart

NextSandbox ==
  \/ \E mkdirFails \in BOOLEAN : createTemporaryHomeDirectory(mkdirFails)
  \/ \E cwdThrows \in BOOLEAN : spawnChild(cwdThrows)
  \/ timeoutExpires
  \/ childError
  \/ \E stream \in Streams, chunk \in Chunks : childData(stream, chunk)
  \/ \E status \in ExitStatuses : childClose(status)
  \/ enterFinally
  \/ \E rmFails \in BOOLEAN : leaveFinally(rmFails)

SpecSandbox == InitSandbox /\ [][NextSandbox]_vars

\* ============================================ one run of ShellTool, wide
\* One invocation of ShellTool.run with every kind of input, every answer an
\* approval provider may give and every outcome of runSandboxedCommand.

\* Tool inputs, with a command that is no string and the empty string.
AllInputs ==
  Inputs \cup { [typeof |-> "number", command |-> None],
                [typeof |-> "string", command |-> Some(<<>>)] }

\* Denial reasons, with the empty string.
AllDenyReasons == DenyReasons \cup { Some(<<>>) }

AllDecisions ==
  Decisions \cup { [type |-> "deny", scope |-> None, reason |-> Some(<<>>)] }

AllCancelReasons == CancelReasons \cup { Some(<<>>) }

\* ShellToolApprovalResult values a stubbed provider resolves with.
StubResults ==
  { [decision |-> "allow", scope |-> None, reason |-> None] }
  \cup { [decision |-> "deny", scope |-> None, reason |-> rsn] : rsn \in AllDenyReasons }

\* What runSandboxedCommand delivers: results (of a child that exited and of
\* one that a signal from elsewhere ended), the timeout, an overflow with
\* its partial result, the error event, and the errors thrown before the try.
AllSandboxOutcomes ==
  SandboxOutcomes
  \cup { resolved([stdout |-> <<>>, stderr |-> <<"a">>,
                   exitCode |-> Some(1), signal |-> None]),
         resolved([stdout |-> <<"a">>, stderr |-> <<>>,
                   exitCode |-> None, signal |-> Some("SIGKILL")]),
         rejected(timedOutMessage, None),
         rejected(exceededMessage("stdout"),
                  Some([stdout |-> <<"a", "a">>, stderr |-> <<>>,
                        exitCode |-> None, signal |-> None])),
         rejected(spawnErrorMessage, None),
         thrown(cwdErrorMessage) }

\* The run that is followed.
FirstRun == CHOOSE r \in Runs : \A q \in Runs : r <= q

InitRun ==
  /\ approvalProvider \in BOOLEAN
  /\ stubbedApproval \in
       (IF approvalProvider THEN {None} \cup { Some(a) : a \in StubResults }
                            ELSE {None})
  /\ requestListeners \in
       (IF approvalProvider /\ stubbedApproval = None THEN {0, 1} ELSE {0})
  /\ ToolStart
  /\ cwdOption = TRUE
  /\ SandboxStart
  /\ RemainingStart
  /\ RiskStart

NextRun ==
  \/ \E toolInput \in AllInputs : run(FirstRun, toolInput)
  \/ ensureApproval(FirstRun)
  \/ executeCommand(FirstRun)
  \/ \E outcome \in AllSandboxOutcomes : sandboxSettles(FirstRun, outcome)
  \/ \E requestId \in RequestIds, decision \in AllDecisions : callRespond(requestId, decision)
  \/ \E requestId \in RequestIds, reason \in AllCancelReasons : callCancel(requestId, reason)
  \/ \E reason \in AllCancelReasons : callCancelAll(reason)
  \/ callResetSession

SpecRun == InitRun /\ [][NextRun]_vars

\* ================================================= analyzeShellCommand
\* The classifier applied to command lines of at most MaxWords words.
MaxWords == 2

\* The words the command lines are made of: a local command, one command of
\* each keyword set, verbs that follow them, and two URLs (one in capitals).
Words ==
  { <<"l","s">>,
    <<"c","u","r","l">>,
    <<"n","p","m">>,
    <<"i","n","s","t","a","l","l">>,
    <<"g","i","t">>,
    <<"p","u","s","h">>,
    <<"d","o","c","k","e","r">>,
    <<"h","t","t","p","s",":","/","/","x">>,
    <<"S","F","T","P",":","/","/","h">> }

\* The command lines: one to MaxWords words separated by one space.
RiskCommands ==
  { join(ws, <<" ">>) : ws \in UNION { [1..n -> Words] : n \in 1..MaxWords } }

\* The fixed vocabulary of risk.reasons.
RiskTags ==
  {"network", "package-manager", "remote-source-control", "container-runtime",
   "url-detected", "remote-filesystem"}

\* analyzeShellCommand is called with the command line.
callAnalyzeShellCommand ==
  /\ IsSome(shellCommand)
  /\ shellAnalysis = None
  /\ shellAnalysis' = Some(analyzeShellCommand(Get(shellCommand)))
  /\ UNCHANGED <<shellCommand, shellTokens, toolVars, sandboxVars, remainingVars>>

InitRisk ==
  /\ approvalProvider = FALSE
  /\ requestListeners = 0
  /\ stubbedApproval = None
  /\ ToolStart
  /\ cwdOption = TRUE
  /\ SandboxStart
  /\ RemainingStart
  /\ shellCommand \in { Some(c) : c \in RiskCommands }
  /\ shellAnalysis = None
  /\ shellTokens = None

NextRisk == callAnalyzeShellCommand

SpecRisk == InitRisk /\ [][NextRisk]_vars

\* ================================================ tokenizeShellCommand
\* The tokenizer applied to every string of at most MaxChars characters over
\* a letter, a blank, the two quotes and the backslash, and to the example
\* of the specification.
MaxChars == 4

TokenizerAlphabet == {"a", " ", "\"", "'", "\\"}

\* say "hello world" now
SayHelloWorldNow ==
  <<"s","a","y"," ","\"","h","e","l","l","o"," ","w","o","r","l","d","\""," ","n","o","w">>

TokenizerInputs ==
  UNION { [1..n -> TokenizerAlphabet] : n \in 0..MaxChars } \cup {SayHelloWorldNow}

\* tokenizeShellCommand is called with the string.
callTokenizeShellCommand ==
  /\ IsSome(shellCommand)
  /\ shellTokens = None
  /\ shellTokens' = Some(tokenizeShellCommand(Get(shellCommand)))
  /\ UNCHANGED <<shellCommand, shellAnalysis, toolVars, sandboxVars, remainingVars>>

InitTokens ==
  /\ approvalProvider = FALSE
  /\ requestListeners = 0
  /\ stubbedApproval = None
  /\ ToolStart
  /\ cwdOption = TRUE
  /\ SandboxStart
  /\ RemainingStart
  /\ shellCommand \in { Some(c) : c \in TokenizerInputs }
  /\ shellAnalysis = None
  /\ shellTokens = None

NextTokens == callTokenizeShellCommand

SpecTokens == InitTokens /\ [][NextTokens]_vars

\* ================================================== createOutputPreview
\* shell.ts, lines 76-125.
PREVIEW_HEAD_LINES == 2

PREVIEW_TAIL_LINES == 1

PREVIEW_MAX_LINE_LENGTH == 120

\* The character U+2026 (horizontal ellipsis).
Ellipsis == "U+2026"

\* The smallest element of a non-empty set of positions.
first(positions) == CHOOSE i \in positions : \A j \in positions : i <= j

\* output.replace(/\r\n/g, '\n'): every carriage return that stands before a
\* line feed is dropped.
RECURSIVE replaceCrLf(_)
replaceCrLf(text) ==
  LET pairs == { i \in 1..(Len(text) - 1) : text[i] = "\r" /\ text[i + 1] = "\n" }
  IN IF pairs = {} THEN text
     ELSE LET i == first(pairs)
          IN SubSeq(text, 1, i - 1) \o replaceCrLf(SubSeq(text, i + 1, Len(text)))

\* String.prototype.split('\n')
RECURSIVE split(_)
split(text) ==
  LET feeds == { i \in 1..Len(text) : text[i] = "\n" }
  IN IF feeds = {} THEN <<text>>
     ELSE LET i == first(feeds)
          IN <<SubSeq(text, 1, i - 1)>> \o split(SubSeq(text, i + 1, Len(text)))

\* line.replace(/\r$/u, '')
stripCarriageReturn(line) ==
  IF Len(line) > 0 /\ line[Len(line)] = "\r"
  THEN SubSeq(line, 1, Len(line) - 1) ELSE line

\* lines.filter((line) => line.trim().length > 0)
RECURSIVE filterMeaningful(_)
filterMeaningful(lines) ==
  IF lines = <<>> THEN <<>>
  ELSE IF Len(trim(Head(lines))) > 0
  THEN <<Head(lines)>> \o filterMeaningful(Tail(lines))
  ELSE filterMeaningful(Tail(lines))

\* Mutant: a long line keeps PREVIEW_MAX_LINE_LENGTH characters before the
\* ellipsis.
trimLineKeepsMax(line) ==
  LET trimmedLine == trimEnd(line) IN
  IF Len(trimmedLine) <= PREVIEW_MAX_LINE_LENGTH THEN trimmedLine
  ELSE Append(SubSeq(trimmedLine, 1, PREVIEW_MAX_LINE_LENGTH), Ellipsis)

\* const trimLine
trimLine(line) ==
  LET trimmedLine == trimEnd(line) IN
  IF Len(trimmedLine) <= PREVIEW_MAX_LINE_LENGTH THEN trimmedLine
  ELSE Append(SubSeq(trimmedLine, 1, PREVIEW_MAX_LINE_LENGTH - 1), Ellipsis)

\* createOutputPreview; output is optional (undefined is no string).
createOutputPreview(output) ==
  IF ~IsSome(output) THEN None
  ELSE
    LET normalized == replaceCrLf(Get(output))
        raw == split(normalized)
        lines == [k \in 1..Len(raw) |-> stripCarriageReturn(raw[k])]
        meaningfulLines == filterMeaningful(lines)
        count == Len(meaningfulLines)
        limit == PREVIEW_HEAD_LINES + PREVIEW_TAIL_LINES
    IN IF count = 0 THEN None
       ELSE IF count <= limit
       THEN Some([lines |-> [k \in 1..count |-> trimLine(meaningfulLines[k])],
                  truncated |-> FALSE])
       ELSE
         LET headLines == [k \in 1..PREVIEW_HEAD_LINES |-> trimLine(meaningfulLines[k])]
             tailLines == [k \in 1..PREVIEW_TAIL_LINES |->
                             trimLine(meaningfulLines[count - PREVIEW_TAIL_LINES + k])]
         IN Some([lines |-> headLines \o << <<Ellipsis>> >> \o tailLines,
                  truncated |-> TRUE])

\* How many lines the outputs have at most.
MaxLines == 4

\* A line of n characters.
lineOf(n) == [i \in 1..n |-> "x"]

\* The lines the outputs are made of: an empty one, one of blanks, short
\* ones (one ending in a blank), and lines of PREVIEW_MAX_LINE_LENGTH
\* characters and of one more.
PreviewLines ==
  { <<>>, <<" ">>, <<"a">>, <<"b", " ">>,
    lineOf(PREVIEW_MAX_LINE_LENGTH), lineOf(PREVIEW_MAX_LINE_LENGTH + 1) }

\* The outputs: undefined, one to MaxLines lines joined by line feeds, and
\* one output with carriage returns before the line feeds.
PreviewOutputs ==
  {None}
  \cup { Some(join(ls, <<"\n">>)) :
           ls \in UNION { [1..n -> PreviewLines] : n \in 1..MaxLines } }
  \cup { Some(<<"a", "\r", "\n", "\r", "\n", "b", "\r">>) }

\* createOutputPreview is called with the output.
callCreateOutputPreview ==
  /\ preview = None
  /\ preview' = Some(createOutputPreview(previewOutput))
  /\ UNCHANGED <<previewOutput, toolVars, sandboxVars, riskVars, instanceVars, laterVars>>

InitPreview ==
  /\ approvalProvider = FALSE
  /\ requestListeners = 0
  /\ stubbedApproval = None
  /\ ToolStart
  /\ cwdOption = TRUE
  /\ SandboxStart
  /\ RiskStart
  /\ previewOutput \in PreviewOutputs
  /\ preview = None
  /\ InstanceStart
  /\ LaterStart

NextPreview == callCreateOutputPreview

SpecPreview == InitPreview /\ [][NextPreview]_vars

\* ============================== two approval providers in one process
\* interactive-approval-provider.ts: approvalCounter (line 36) belongs to
\* the module, pending and approvedCommands (lines 42-43) to the instance.
\* How many requestApproval calls the two instances receive together.
MaxCalls == 2

\* The commands approval is requested for: one of each cache key.
ProviderCommands == { <<"l","s">>, <<"n","c">> }

Instances == {1, 2}

Callers == 1..MaxCalls

CallIds == { nextId(n) : n \in 1..MaxCalls }

\* The instance's state with the module's counter.
providerOf(k) ==
  IF k = 1 THEN provider
  ELSE [secondProvider EXCEPT !.approvalCounter = approvalCounter]

setProviderOf(k, P) ==
  IF k = 1
  THEN /\ setProvider(P)
       /\ UNCHANGED secondProvider
  ELSE /\ secondProvider' = [P EXCEPT !.ret = None, !.approvalCounter = 0]
       /\ approvalCounter' = P.approvalCounter
       /\ UNCHANGED <<pending, approvedCommands, requestEvents, resolvedEvents,
                      resolveCalls, sessionAllowed, approval, approvalId>>

\* What the provider-only actions leave alone.
besideProviders ==
  <<approvalProvider, requestListeners, runVars, stubbedApproval, sandboxVars,
    riskVars, previewVars, writeFileVars, agentRest, listenerVars>>

\* The calls made so far, in order: call c is the c-th requestApproval call
\* of the process and its promise is slot c of the instance called.
requested ==
  SelectSeq([c \in 1..MaxCalls |-> c],
            LAMBDA c : \E k \in Instances :
                         \/ IsSome(providerOf(k).approvalId[c])
                         \/ IsSome(providerOf(k).approval[c]))

\* The request events emitted have one listener (the approval queue).
callRequestApproval(k, c, rawCommand) ==
  LET P == requestApproval(providerOf(k), c, approvalRequest(rawCommand), 1) IN
  /\ c = Len(requested) + 1
  /\ setProviderOf(k, P)
  /\ createdIds' =
       IF IsSome(P.approvalId[c])
       THEN Append(createdIds, [id |-> Get(P.approvalId[c]), instance |-> k])
       ELSE createdIds
  /\ UNCHANGED <<besideProviders, history>>

callRespondOf(k, requestId, decision) ==
  LET P == respond(providerOf(k), requestId, decision) IN
  /\ requestId \in DOMAIN providerOf(k).pending
  /\ setProviderOf(k, P)
  /\ UNCHANGED <<besideProviders, createdIds, history>>

callCancelOf(k, requestId, reason) ==
  LET P == cancel(providerOf(k), requestId, reason) IN
  /\ requestId \in DOMAIN providerOf(k).pending
  /\ setProviderOf(k, P)
  /\ UNCHANGED <<besideProviders, createdIds, history>>

callCancelAllOf(k, reason) ==
  LET P == cancelAll(providerOf(k), reason) IN
  /\ setProviderOf(k, P)
  /\ UNCHANGED <<besideProviders, createdIds, history>>

callResetSessionOf(k) ==
  LET P == resetSession(providerOf(k)) IN
  /\ setProviderOf(k, P)
  /\ UNCHANGED <<besideProviders, createdIds, history>>

\* app.tsx, lines 134-141: the /reset command.
ResetReason == Some(<<"Conversation reset.">>)

conversationReset(P) == resetSession(cancelAll(P, ResetReason))

\* agent.reset() empties the agent's history first; setConversation and
\* setStatusMessage change what the interface shows only.
handleReset(k) ==
  LET P == conversationReset(providerOf(k)) IN
  /\ history' = <<>>
  /\ setProviderOf(k, P)
  /\ UNCHANGED <<besideProviders, createdIds>>

InitProviders ==
  /\ approvalProvider = TRUE
  /\ requestListeners = 1
  /\ stubbedApproval = None
  /\ approvalCounter = 0
  /\ pending = <<>>
  /\ approvedCommands = {}
  /\ requestEvents = [id \in CallIds |-> <<>>]
  /\ resolvedEvents = [id \in CallIds |-> <<>>]
  /\ resolveCalls = [id \in CallIds |-> 0]
  /\ sessionAllowed = {}
  /\ approvalId = [c \in Callers |-> None]
  /\ approval = [c \in Callers |-> None]
  /\ pc = [r \in Runs |-> "idle"]
  /\ input = [r \in Runs |-> [typeof |-> "undefined", command |-> None]]
  /\ sandboxCalls = [r \in Runs |-> <<>>]
  /\ result = [r \in Runs |-> None]
  /\ cwdOption = TRUE
  /\ SandboxStart
  /\ RiskStart
  /\ PreviewStart
  /\ secondProvider = SecondStart(Callers, CallIds)
  /\ createdIds = <<>>
  /\ LaterStart

NextProviders ==
  \/ \E k \in Instances, c \in Callers, rawCommand \in ProviderCommands :
       callRequestApproval(k, c, rawCommand)
  \/ \E k \in Instances, requestId \in CallIds, decision \in Decisions :
       callRespondOf(k, requestId, decision)
  \/ \E k \in Instances, requestId \in CallIds, reason \in CancelReasons :
       callCancelOf(k, requestId, reason)
  \/ \E k \in Instances, reason \in CancelReasons : callCancelAllOf(k, reason)
  \/ \E k \in Instances : callResetSessionOf(k)
  \/ \E k \in Instances : handleReset(k)

SpecProviders == InitProviders /\ [][NextProviders]_vars

\* ============================================ listeners that call back
\* interactive-approval-provider.ts with listeners that call the provider
\* from inside the event they are handling.  EventEmitter.emit runs the
\* listeners before it returns, so such a call starts from the state the
\* emitting method has built up to its emit and the method goes on from the
\* state the listener left.
\* How many requestApproval calls are made at most.
MaxRequests == 3

Requesters == 1..MaxRequests

ListenerIds == { nextId(n) : n \in 1..MaxRequests }

\* What the resolved-event listener calls when an event reaches it.
ResolvedReactions == {"none", "respond", "cancel", "requestApproval", "respondOther"}

\* The decisions a listener answers with.
ListenerDecisions == { d \in Decisions : d.reason = None }

\* The request-event listener answers the request at once or leaves it.
RequestReactions == {None} \cup { Some(d) : d \in ListenerDecisions }

\* The provider's state with the record of the listeners' calls, which
\* starts empty at every call of a method from outside.
listening ==
  [approvalCounter |-> approvalCounter,
   pending |-> pending,
   approvedCommands |-> approvedCommands,
   requestEvents |-> requestEvents,
   resolvedEvents |-> resolvedEvents,
   resolveCalls |-> resolveCalls,
   sessionAllowed |-> sessionAllowed,
   approval |-> approval,
   approvalId |-> approvalId,
   ret |-> None,
   log |-> <<>>]

setListening(P) ==
  /\ setProvider(P)
  /\ listenerLog' = P.log

noted(P, entry) == [P EXCEPT !.log = Append(@, entry)]

\* One record of the log: the event handled (or "cancelAll"), the call made
\* and what it returned; for requestApproval the promise it left and whether
\* a request event was emitted; for cancelAll the snapshot of the keys, the
\* counter at the call and the keys pending at its return.
logEntry(at, id, call) ==
  [at |-> at, id |-> id, call |-> call, ret |-> None, promise |-> None,
   emitted |-> FALSE, snapshot |-> <<>>, counter |-> 0, left |-> {}]

unusedRequesters(P) ==
  { c \in Requesters : P.approvalId[c] = None /\ P.approval[c] = None }

lowest(numbers) == CHOOSE n \in numbers : \A m \in numbers : n <= m

\* A listener of RESOLVED_EVENT handling the event of id.  The calls it
\* makes emit events of their own, which it lets pass.
onResolved(P, id, reaction) ==
  LET allowOnce == [type |-> "allow", scope |-> Some("once"), reason |-> None]
      others == SelectSeq(pendingKeys(P), LAMBDA key : key # id)
  IN CASE reaction = "respond" ->
            LET Q == respond(P, id, allowOnce) IN
            noted(Q, [logEntry("resolved", id, "respond") EXCEPT !.ret = Q.ret])
       [] reaction = "cancel" ->
            LET Q == cancel(P, id, None) IN
            noted(Q, [logEntry("resolved", id, "cancel") EXCEPT !.ret = Q.ret])
       [] reaction = "requestApproval" /\ unusedRequesters(P) # {} ->
            LET c == lowest(unusedRequesters(P))
                request == P.requestEvents[id][1].request
                Q == requestApproval(P, c, request, 1)
            IN noted(Q, [logEntry("resolved", id, "requestApproval") EXCEPT
                           !.promise = Q.approval[c],
                           !.emitted = Q.requestEvents # P.requestEvents])
       [] reaction = "respondOther" /\ others # <<>> ->
            LET Q == respond(P, Head(others), allowOnce) IN
            noted(Q, [logEntry("resolved", id, "respondOther") EXCEPT !.ret = Q.ret])
       [] OTHER -> P

\* A listener of REQUEST_EVENT handling the event of id.
onRequest(P, id, reaction) ==
  IF reaction = None THEN P
  ELSE
    LET Q == respond(P, id, Get(reaction))
        c == CHOOSE r \in Requesters : P.approvalId[r] = Some(id)
    IN noted(Q, [logEntry("request", id, "respond") EXCEPT
                   !.ret = Q.ret, !.promise = Q.approval[c]])

\* Mutant: the request event is emitted before the entry is stored.
atRequestEventNotStored(P, r, request) ==
  [requestApproval(P, r, request, 1) EXCEPT !.pending = P.pending]

\* requestApproval on a cache miss, up to its emit (lines 54-66): the id is
\* taken, the entry is stored and the event is handed to the listeners.
atRequestEvent(P, r, request) == requestApproval(P, r, request, 1)

requestApprovalEmitting(P, r, request, reaction) ==
  IF buildCacheKey(request) \in P.approvedCommands
  THEN requestApproval(P, r, request, 1)
  ELSE onRequest(atRequestEvent(P, r, request), nextId(P.approvalCounter + 1),
                 reaction)

\* Mutant: the resolved event is emitted before the cache key is inserted.
atResolvedEventNotCached(P, requestId, decision) ==
  [respondFound(P, requestId, decision) EXCEPT
     !.approvedCommands = P.approvedCommands]

\* respond once the entry was found, up to its emit (lines 76-91): the entry
\* is deleted, the key cached, the promise resolved and the event handed to
\* the listeners.
atResolvedEvent(P, requestId, decision) == respondFound(P, requestId, decision)

respondEmitting(P, requestId, decision, reaction) ==
  IF requestId \notin DOMAIN P.pending
  THEN [P EXCEPT !.ret = Some(FALSE)]
  ELSE [onResolved(atResolvedEvent(P, requestId, decision), requestId, reaction)
          EXCEPT !.ret = Some(TRUE)]

cancelEmitting(P, requestId, reason, reaction) ==
  respondEmitting(P, requestId,
                  [type |-> "deny", scope |-> None,
                   reason |-> Some(OrElse(reason, CancelledMessage))],
                  reaction)

RECURSIVE cancelEachEmitting(_, _, _, _)
cancelEachEmitting(P, ids, reason, reaction) ==
  IF ids = <<>> THEN P
  ELSE cancelEachEmitting(cancelEmitting(P, Head(ids), reason, reaction),
                          Tail(ids), reason, reaction)

\* Mutant: cancelAll goes on until no request is pending.
cancelAllEmittingUntilEmpty(P, reason, reaction) ==
  LET ids == pendingKeys(P)
      Q == cancelEachEmitting(P, ids, reason, reaction)
      R == cancelEach(Q, pendingKeys(Q), reason)
  IN IF ids = <<>> THEN [P EXCEPT !.ret = None]
     ELSE noted([R EXCEPT !.ret = None],
                [logEntry("cancelAll", <<>>, reaction) EXCEPT
                   !.snapshot = ids, !.counter = P.approvalCounter,
                   !.left = DOMAIN R.pending])

\* cancelAll: the keys are copied first, then each is cancelled in turn.  A
\* call that found requests pending is recorded in the log.
cancelAllEmitting(P, reason, reaction) ==
  LET ids == pendingKeys(P)
      Q == cancelEachEmitting(P, ids, reason, reaction)
  IN IF ids = <<>> THEN [P EXCEPT !.ret = None]
     ELSE noted([Q EXCEPT !.ret = None],
                [logEntry("cancelAll", <<>>, reaction) EXCEPT
                   !.snapshot = ids, !.counter = P.approvalCounter,
                   !.left = DOMAIN Q.pending])

besideListeners ==
  <<approvalProvider, requestListeners, runVars, stubbedApproval, sandboxVars,
    riskVars, previewVars, instanceVars, writeFileVars, agentVars>>

\* A caller asks for approval; the request listener reacts.
requestApprovalHeard(c, rawCommand, reaction) ==
  /\ unusedRequesters(listening) # {}
  /\ c = lowest(unusedRequesters(listening))
  /\ setListening(requestApprovalEmitting(listening, c, approvalRequest(rawCommand),
                                          reaction))
  /\ UNCHANGED besideListeners

\* The approval surface answers a pending request; the resolved listener reacts.
respondHeard(requestId, decision, reaction) ==
  /\ requestId \in DOMAIN pending
  /\ setListening(respondEmitting(listening, requestId, decision, reaction))
  /\ UNCHANGED besideListeners

cancelAllHeard(reason, reaction) ==
  /\ setListening(cancelAllEmitting(listening, reason, reaction))
  /\ UNCHANGED besideListeners

resetSessionHeard ==
  /\ setListening(resetSession(listening))
  /\ UNCHANGED besideListeners

InitListeners ==
  /\ approvalProvider = TRUE
  /\ requestListeners = 1
  /\ stubbedApproval = None
  /\ approvalCounter = 0
  /\ pending = <<>>
  /\ approvedCommands = {}
  /\ requestEvents = [id \in ListenerIds |-> <<>>]
  /\ resolvedEvents = [id \in ListenerIds |-> <<>>]
  /\ resolveCalls = [id \in ListenerIds |-> 0]
  /\ sessionAllowed = {}
  /\ approvalId = [c \in Requesters |-> None]
  /\ approval = [c \in Requesters |-> None]
  /\ pc = [r \in Runs |-> "idle"]
  /\ input = [r \in Runs |-> [typeof |-> "undefined", command |-> None]]
  /\ sandboxCalls = [r \in Runs |-> <<>>]
  /\ result = [r \in Runs |-> None]
  /\ cwdOption = TRUE
  /\ SandboxStart
  /\ RiskStart
  /\ RemainingStart

NextListeners ==
  \/ \E c \in Requesters, rawCommand \in ProviderCommands,
        reaction \in RequestReactions :
       requestApprovalHeard(c, rawCommand, reaction)
  \/ \E requestId \in ListenerIds, decision \in ListenerDecisions,
        reaction \in ResolvedReactions :
       respondHeard(requestId, decision, reaction)
  \/ \E reaction \in ResolvedReactions : cancelAllHeard(None, reaction)
  \/ resetSessionHeard

SpecListeners == InitListeners /\ [][NextListeners]_vars

\* ========================================================= WriteFileTool
\* write-file.ts.  The path is taken as given and resolved; the file's
\* content is text in the encoding of the run.
\* How many operations an input has at most.
MaxOps == 2

\* createErrorResult
createErrorResult(message) == [output |-> <<>>, error |-> Some(message)]

noOperationsMessage ==
  <<"Write-file tool requires at least one operation to execute.">>

unableToReadMessage(message) == <<"Unable to read target file: ">> \o message

deleteTargetsMessage(line, length) ==
  <<"Delete operation targets line ", ToString(line), ", but the file only has ",
    ToString(length), " line(s).">>

deleteRemovesMessage(count, line, available) ==
  <<"Delete operation removes ", ToString(count), " line(s) from ", ToString(line),
    ", but only ", ToString(available), " line(s) are available.">>

noChangesMessage == <<"No changes were applied to the file.">>

unableToPrepareMessage(message) == <<"Unable to prepare target directory: ">> \o message

unableToWriteMessage(message) == <<"Unable to write file: ">> \o message

\* splitIntoLines
splitIntoLines(content) ==
  IF content = <<>> THEN [lines |-> <<>>, hadTrailingNewline |-> FALSE]
  ELSE
    LET normalized == replaceCrLf(content)
        endsWithFeed == normalized[Len(normalized)] = "\n"
        all == split(normalized)
        segments == IF endsWithFeed THEN SubSeq(all, 1, Len(all) - 1) ELSE all
    IN IF Len(segments) = 1 /\ segments[1] = <<>>
       THEN [lines |-> <<>>, hadTrailingNewline |-> endsWithFeed]
       ELSE [lines |-> segments, hadTrailingNewline |-> endsWithFeed]

\* applyDeleteOperation on the lines L and the changes C.
applyDeleteOperation(operation, L, C) ==
  LET line == Get(operation.line)
      count == operation.count
      startIndex == line - 1
  IN IF startIndex < 0 \/ startIndex >= Len(L)
     THEN [ok |-> FALSE, message |-> deleteTargetsMessage(line, Len(L)),
           lines |-> L, changes |-> C]
     ELSE IF count > Len(L) - startIndex
     THEN [ok |-> FALSE,
           message |-> deleteRemovesMessage(count, line, Len(L) - startIndex),
           lines |-> L, changes |-> C]
     ELSE [ok |-> TRUE, message |-> <<>>,
           lines |-> SubSeq(L, 1, startIndex) \o SubSeq(L, startIndex + count + 1, Len(L)),
           changes |-> C \o [i \in 1..count |->
                               [kind |-> "deletion", lineNumber |-> line + i - 1,
                                content |-> L[startIndex + i]]]]

\* applyInsertOperation; operation.line is None for null.
applyInsertOperation(operation, L, C) ==
  LET first0 == IF IsSome(operation.line)
                THEN (IF Get(operation.line) - 1 > 0 THEN Get(operation.line) - 1 ELSE 0)
                ELSE Len(L)
      insertionIndex == IF first0 < Len(L) THEN first0 ELSE Len(L)
  IN [ok |-> TRUE, message |-> <<>>,
      lines |-> SubSeq(L, 1, insertionIndex) \o operation.lines
                  \o SubSeq(L, insertionIndex + 1, Len(L)),
      changes |-> C \o [i \in 1..Len(operation.lines) |->
                          [kind |-> "addition", lineNumber |-> insertionIndex + i,
                           content |-> operation.lines[i]]]]

\* for (const operation of operations): the loop of run, left at the first
\* delete that fails.
RECURSIVE applyOperations(_, _, _)
applyOperations(operations, L, C) ==
  IF operations = <<>> THEN [ok |-> TRUE, message |-> <<>>, lines |-> L, changes |-> C]
  ELSE
    LET operation == Head(operations)
        applied == IF operation.kind = "delete"
                   THEN applyDeleteOperation(operation, L, C)
                   ELSE applyInsertOperation(operation, L, C)
    IN IF ~applied.ok THEN applied
       ELSE applyOperations(Tail(operations), applied.lines, applied.changes)

\* combineLines
combineLines(L, ensureTrailingNewline) ==
  IF L = <<>> THEN <<>>
  ELSE IF ensureTrailingNewline THEN join(L, <<"\n">>) \o <<"\n">>
  ELSE join(L, <<"\n">>)

\* The normalized operations of the inputs: an insert has no count and a
\* line or null (None), a delete has a line, a count and no lines.
Operations ==
  { [kind |-> "insert", line |-> l, count |-> 0, lines |-> ls] :
      l \in {None, Some(1), Some(3)}, ls \in { << <<"x">> >> } }
  \cup { [kind |-> "delete", line |-> Some(l), count |-> n, lines |-> <<>>] :
           l \in 1..2, n \in 1..2 }

WriteInputs ==
  { [operations |-> ops, ensureTrailingNewline |-> e] :
      ops \in UNION { [1..n -> Operations] : n \in 0..MaxOps }, e \in BOOLEAN }

\* The target file before the run: missing, empty, or with one or two
\* lines, with and without the final line feed.
FilesOnDisk ==
  { None, Some(<<>>), Some(<<"a">>), Some(<<"a", "\n">>),
    Some(<<"a", "\r", "\n", "b">>), Some(<<"a", "\n", "b", "\n">>) }

\* What fs.readFile, fs.mkdir and fs.writeFile can do.  A write that fails
\* was refused before the file was opened, or failed after the file was
\* opened for writing, which truncates it.
ReadOutcomes == {"read", "EACCES"}

WriteOutcomes == {"written", "refused", "truncated"}

writeFileSteps == <<fileOnDisk, fileBefore, writeFileCalls>>

besideWriteFile ==
  <<toolVars, sandboxVars, riskVars, previewVars, instanceVars, agentVars,
    listenerVars>>

\* run up to its first await: the operations were normalized.
runWriteFile(toolInput) ==
  /\ writePc = "idle"
  /\ writeInput' = Some(toolInput)
  /\ fileBefore' = fileOnDisk
  /\ IF toolInput.operations = <<>>
     THEN /\ writePc' = "done"
          /\ writeResult' = Some(createErrorResult(noOperationsMessage))
     ELSE /\ writePc' = "readFile"
          /\ UNCHANGED writeResult
  /\ UNCHANGED <<fileOnDisk, fileExists, fileLines, hadTrailingNewline,
                 recordedChanges, writeFileCalls, besideWriteFile>>

\* fs.readFile settles and run goes on to its next await: the lines are
\* split and the operations applied in memory.
readFile(outcome) ==
  /\ writePc = "readFile"
  /\ UNCHANGED <<fileOnDisk, fileBefore, writeInput, writeFileCalls, besideWriteFile>>
  /\ IF outcome = "EACCES"
     THEN /\ writePc' = "done"
          /\ writeResult' =
               Some(createErrorResult(unableToReadMessage(<<"EACCES: permission denied">>)))
          /\ UNCHANGED <<fileExists, fileLines, hadTrailingNewline, recordedChanges>>
     ELSE
       LET fileContent == IF IsSome(fileOnDisk) THEN Get(fileOnDisk) ELSE <<>>
           parts == splitIntoLines(fileContent)
           applied == applyOperations(Get(writeInput).operations, parts.lines, <<>>)
       IN /\ fileExists' = IsSome(fileOnDisk)
          /\ hadTrailingNewline' = parts.hadTrailingNewline
          /\ fileLines' = applied.lines
          /\ recordedChanges' = applied.changes
          /\ IF ~applied.ok
             THEN /\ writePc' = "done"
                  /\ writeResult' = Some(createErrorResult(applied.message))
             ELSE IF applied.changes = <<>>
             THEN /\ writePc' = "done"
                  /\ writeResult' = Some(createErrorResult(noChangesMessage))
             ELSE /\ writePc' = "mkdir"
                  /\ UNCHANGED writeResult

\* fs.mkdir settles.
mkdir(fails) ==
  /\ writePc = "mkdir"
  /\ IF fails
     THEN /\ writePc' = "done"
          /\ writeResult' =
               Some(createErrorResult(unableToPrepareMessage(<<"EACCES: permission denied">>)))
     ELSE /\ writePc' = "writeFile"
          /\ UNCHANGED writeResult
  /\ UNCHANGED <<fileOnDisk, fileBefore, writeInput, fileExists, fileLines,
                 hadTrailingNewline, recordedChanges, writeFileCalls, besideWriteFile>>

\* fs.writeFile is called with the final content and settles.
writeFile(outcome) ==
  LET finalContent ==
        combineLines(fileLines,
                     IF Get(writeInput).ensureTrailingNewline THEN TRUE
                     ELSE hadTrailingNewline)
  IN /\ writePc = "writeFile"
     /\ writePc' = "done"
     /\ writeFileCalls' = Append(writeFileCalls, finalContent)
     /\ fileOnDisk' =
          IF outcome = "written" THEN Some(finalContent)
          ELSE IF outcome = "truncated" THEN Some(<<>>)
          ELSE fileOnDisk
     /\ writeResult' =
          Some(IF outcome = "written"
               THEN [output |-> finalContent, error |-> None]
               ELSE createErrorResult(unableToWriteMessage(<<"ENOSPC: no space left on device">>)))
     /\ UNCHANGED <<fileBefore, writeInput, fileExists, fileLines, hadTrailingNewline,
                    recordedChanges, besideWriteFile>>

InitWriteFile ==
  /\ approvalProvider = FALSE
  /\ requestListeners = 0
  /\ stubbedApproval = None
  /\ ToolStart
  /\ cwdOption = TRUE
  /\ SandboxStart
  /\ RiskStart
  /\ PreviewStart
  /\ InstanceStart
  /\ fileOnDisk \in FilesOnDisk
  /\ fileBefore = None
  /\ writeInput = None
  /\ writePc = "idle"
  /\ fileExists = TRUE
  /\ fileLines = <<>>
  /\ hadTrailingNewline = FALSE
  /\ recordedChanges = <<>>
  /\ writeFileCalls = <<>>
  /\ writeResult = None
  /\ AgentStart
  /\ ListenerStart

NextWriteFile ==
  \/ \E toolInput \in WriteInputs : runWriteFile(toolInput)
  \/ \E outcome \in ReadOutcomes : readFile(outcome)
  \/ \E fails \in BOOLEAN : mkdir(fails)
  \/ \E outcome \in WriteOutcomes : writeFile(outcome)

SpecWriteFile == InitWriteFile /\ [][NextWriteFile]_vars

\* ================================================================ Agent
\* agent/loop.ts, lines 30-173.
\* options.maxIterations of the agent, and how many tool calls an assistant
\* message has at most.
maxIterations == 2

MaxToolCalls == 2

\* The registry holds one tool.
RegisteredTools == {"test-tool"}

\* The tool calls a response can carry: toolCall.id is unique in the turn.
ToolNames == {"test-tool", "missing-tool"}

ToolCallLists == UNION { [1..n -> ToolNames] : n \in 0..MaxToolCalls }

\* LLMResponse: toolCalls of the response and of its message, either may be
\* undefined (None).
Responses ==
  { [toolCalls |-> Some(names), messageToolCalls |-> None] : names \in ToolCallLists }
  \cup { [toolCalls |-> None, messageToolCalls |-> m] :
           m \in {None, Some(<<"test-tool">>)} }

\* What tool.run settles with: a result with output, a result with error,
\* or a rejection.
ToolOutcomes == {"output", "error", "throws"}

toolCallId(i, index) == <<"call-", i, "-", index>>

llmFailedMessage == <<"LLM call failed: ", "timeout">>

exhaustedMessage == <<"Reached maximum tool iterations without a final response.">>

missingToolContent(name) ==
  <<"ERROR: Requested tool \"", name, "\" is not available.">>

\* The tool message executeTool builds from the outcome of tool.run.
toolMessageOf(name, id, outcome) ==
  [role |-> "tool", name |-> name, toolCallId |-> id,
   content |-> IF outcome = "output" THEN <<"tool result">>
               ELSE IF outcome = "error" THEN <<"ERROR: ", "tool error">>
               ELSE <<"ERROR: ", "tool threw">>]

besideAgent ==
  <<toolVars, sandboxVars, riskVars, previewVars, instanceVars, writeFileVars,
    listenerVars>>

\* processUserMessage up to its first await.
processUserMessage(userInput) ==
  /\ agentPc = "idle"
  /\ history' = Append(history, [role |-> "user", content |-> userInput])
  /\ toolMessages' = <<>>
  /\ iteration' = 0
  /\ IF 0 < maxIterations
     THEN /\ agentPc' = "generate"
          /\ generateCalls' = generateCalls + 1
          /\ UNCHANGED turnResult
     ELSE /\ agentPc' = "done"
          /\ UNCHANGED generateCalls
          /\ turnResult' = Some([assistant |-> None, toolMessages |-> Some(<<>>),
                                  error |-> Some(exhaustedMessage),
                                  exhaustedIterations |-> TRUE])
  /\ UNCHANGED <<pendingToolCalls, toolCallIndex, onToolMessageCalls, toolEvents,
                 besideAgent>>

\* Mutant: the loop runs while iteration <= maxIterations.
afterToolMessageOneMore(messages) ==
  IF toolCallIndex < Len(pendingToolCalls)
  THEN /\ agentPc' = "tool"
       /\ toolCallIndex' = toolCallIndex + 1
       /\ UNCHANGED <<iteration, generateCalls, turnResult>>
  ELSE /\ iteration' = iteration + 1
       /\ UNCHANGED toolCallIndex
       /\ IF iteration + 1 <= maxIterations
          THEN /\ agentPc' = "generate"
               /\ generateCalls' = generateCalls + 1
               /\ UNCHANGED turnResult
          ELSE /\ agentPc' = "done"
               /\ UNCHANGED generateCalls
               /\ turnResult' = Some([assistant |-> None, toolMessages |-> Some(messages),
                                       error |-> Some(exhaustedMessage),
                                       exhaustedIterations |-> TRUE])

\* What follows a tool message: the next tool call, the next iteration, or
\* the return after the last iteration.
afterToolMessage(messages) ==
  IF toolCallIndex < Len(pendingToolCalls)
  THEN /\ agentPc' = "tool"
       /\ toolCallIndex' = toolCallIndex + 1
       /\ UNCHANGED <<iteration, generateCalls, turnResult>>
  ELSE /\ iteration' = iteration + 1
       /\ UNCHANGED toolCallIndex
       /\ IF iteration + 1 < maxIterations
          THEN /\ agentPc' = "generate"
               /\ generateCalls' = generateCalls + 1
               /\ UNCHANGED turnResult
          ELSE /\ agentPc' = "done"
               /\ UNCHANGED generateCalls
               /\ turnResult' = Some([assistant |-> None, toolMessages |-> Some(messages),
                                       error |-> Some(exhaustedMessage),
                                       exhaustedIterations |-> TRUE])

\* llmClient.generate rejects.
generateFails ==
  /\ agentPc = "generate"
  /\ agentPc' = "done"
  /\ turnResult' = Some([assistant |-> None, toolMessages |-> None,
                          error |-> Some(llmFailedMessage),
                          exhaustedIterations |-> FALSE])
  /\ UNCHANGED <<history, iteration, pendingToolCalls, toolCallIndex, toolMessages,
                 onToolMessageCalls, toolEvents, generateCalls, besideAgent>>

\* llmClient.generate resolves with a response.
generate(response) ==
  LET names == OrElse(response.toolCalls, OrElse(response.messageToolCalls, <<>>))
      calls == [index \in 1..Len(names) |->
                  [id |-> toolCallId(iteration, index), name |-> names[index]]]
      assistantMessage == [role |-> "assistant", content |-> <<"reply">>,
                           toolCalls |-> calls]
  IN /\ agentPc = "generate"
     /\ history' = Append(history, assistantMessage)
     /\ pendingToolCalls' = calls
     /\ IF Len(calls) = 0
        THEN /\ agentPc' = "done"
             /\ turnResult' = Some([assistant |-> Some(assistantMessage),
                                     toolMessages |-> Some(toolMessages),
                                     error |-> None, exhaustedIterations |-> FALSE])
             /\ UNCHANGED toolCallIndex
        ELSE /\ agentPc' = "tool"
             /\ toolCallIndex' = 1
             /\ UNCHANGED turnResult
     /\ UNCHANGED <<iteration, toolMessages, onToolMessageCalls, toolEvents,
                    generateCalls, besideAgent>>

\* executeTool is called for the tool call at hand: an unknown tool gets its
\* message at once, a known one is run.
executeTool ==
  LET toolCall == pendingToolCalls[toolCallIndex] IN
  /\ agentPc = "tool"
  /\ IF toolCall.name \notin RegisteredTools
     THEN LET message == [role |-> "tool", name |-> toolCall.name,
                          toolCallId |-> toolCall.id,
                          content |-> missingToolContent(toolCall.name)]
          IN /\ history' = Append(history, message)
             /\ toolMessages' = Append(toolMessages, message)
             /\ onToolMessageCalls' = Append(onToolMessageCalls, message)
             /\ toolEvents' = toolEvents \o <<[event |-> "start", id |-> toolCall.id],
                                               [event |-> "end", id |-> toolCall.id]>>
             /\ afterToolMessage(Append(toolMessages, message))
             /\ UNCHANGED pendingToolCalls
     ELSE /\ agentPc' = "running"
          /\ toolEvents' = Append(toolEvents, [event |-> "start", id |-> toolCall.id])
          /\ UNCHANGED <<history, iteration, pendingToolCalls, toolCallIndex,
                         toolMessages, onToolMessageCalls, generateCalls, turnResult>>
  /\ UNCHANGED besideAgent

\* tool.run settles: the tool message is pushed to the history and to
\* toolMessages and handed to onToolMessage.
toolRunSettles(outcome) ==
  LET toolCall == pendingToolCalls[toolCallIndex]
      message == toolMessageOf(toolCall.name, toolCall.id, outcome)
  IN /\ agentPc = "running"
     /\ history' = Append(history, message)
     /\ toolMessages' = Append(toolMessages, message)
     /\ onToolMessageCalls' = Append(onToolMessageCalls, message)
     /\ toolEvents' = Append(toolEvents, [event |-> "end", id |-> toolCall.id])
     /\ afterToolMessage(Append(toolMessages, message))
     /\ UNCHANGED <<pendingToolCalls, besideAgent>>

InitAgent ==
  /\ approvalProvider = FALSE
  /\ requestListeners = 0
  /\ stubbedApproval = None
  /\ ToolStart
  /\ cwdOption = TRUE
  /\ SandboxStart
  /\ RiskStart
  /\ PreviewStart
  /\ InstanceStart
  /\ WriteFileStart
  /\ AgentStart
  /\ ListenerStart

NextAgent ==
  \/ processUserMessage(<<"hello">>)
  \/ generateFails
  \/ \E response \in Responses : generate(response)
  \/ executeTool
  \/ \E outcome \in ToolOutcomes : toolRunSettles(outcome)

SpecAgent == InitAgent /\ [][NextAgent]_vars

\* The responses of the turns followed to their end: none, one or two tool
\* calls each, which is what the inner loop needs to be entered, repeated
\* and left; how many LLM calls a turn makes does not depend on the number.
TurnResponses ==
  { response \in Responses :
      Len(OrElse(response.toolCalls, OrElse(response.messageToolCalls, <<>>))) <= 2 }

NextTurn ==
  \/ processUserMessage(<<"hello">>)
  \/ generateFails
  \/ \E response \in TurnResponses : generate(response)
  \/ executeTool
  \/ \E outcome \in ToolOutcomes : toolRunSettles(outcome)

\* The turn with every awaited call settling: llmClient.generate resolves or
\* rejects, and executeTool, which catches what tool.run throws, returns.
SpecAgentSettling ==
  /\ InitAgent
  /\ [][NextTurn]_vars
  /\ WF_vars(generateFails \/ \E response \in TurnResponses : generate(response))
  /\ WF_vars(executeTool)
  /\ WF_vars(\E outcome \in ToolOutcomes : toolRunSettles(outcome))

\* ---------------------------------------------------------------- claims
isCommand(r) == IsSome(input[r].command) /\ Len(trim(rawCommandOf(r))) > 0

isExternal(r) == isCommand(r) /\ Analysis[rawCommandOf(r)].risk.level = "external"

issued(id) == requestEvents[id] # <<>>

allowed(r) == IsSome(approval[r]) /\ Get(approval[r]).decision = "allow"

sessionAllow == [decision |-> "allow", scope |-> Some("session"), reason |-> None]

\* The calls an approval surface can make for one id.
Calls ==
  { [op |-> "respond", decision |-> d, reason |-> None] : d \in Decisions }
  \cup { [op |-> "cancel", decision |-> [type |-> "deny", scope |-> None, reason |-> None],
          reason |-> rsn] : rsn \in CancelReasons }

apply(P, id, call) ==
  IF call.op = "respond" THEN respond(P, id, call.decision)
  ELSE cancel(P, id, call.reason)

\* What a call's promise must hold after the call won.
deliveredIs(promise, call) ==
  /\ IsSome(promise)
  /\ IF call.op = "respond"
     THEN /\ Get(promise).decision = call.decision.type
          /\ Get(promise).scope = call.decision.scope
          /\ IsSome(call.decision.reason) => Get(promise).reason = call.decision.reason
     ELSE /\ Get(promise).decision = "deny"
          /\ Get(promise).reason = Some(OrElse(call.reason, CancelledMessage))

\* The result cancel and cancelAll deliver.
cancelResult(reason) ==
  [decision |-> "deny", scope |-> None,
   reason |-> Some(OrElse(reason, CancelledMessage))]

\* id was never issued to any call.
fresh(id) ==
  /\ id \notin DOMAIN pending
  /\ requestEvents[id] = <<>>
  /\ resolvedEvents[id] = <<>>
  /\ \A q \in Runs : approvalId[q] # Some(id)

\* C1: the sandbox is invoked for a run (or about to be) only if the
\* command's analysed risk is low or the provider's result for this run is
\* allow; a run whose approval result is deny never has a sandbox call.
C1_SandboxOnlyLowOrAllowed ==
  [](\A r \in Runs :
       /\ (pc[r] \in {"execute", "sandbox"} \/ sandboxCalls[r] # <<>>)
            => \/ Analysis[rawCommandOf(r)].risk.level = "low"
               \/ allowed(r)
       /\ (IsSome(approval[r]) /\ Get(approval[r]).decision = "deny")
            => sandboxCalls[r] = <<>> /\ pc[r] \in {"awaitApproval", "done"})

C1_Witness ==
  /\ \E r \in Runs : isExternal(r) /\ allowed(r)
                       /\ sandboxCalls[r] = <<rawCommandOf(r)>>
  /\ \E r \in Runs : isExternal(r) /\ IsSome(approval[r]) /\ ~allowed(r)
                       /\ pc[r] = "done"

\* C2: without an approval provider, a run of an external-risk command has
\* returned a result whose error is non-empty and mentions approval, and
\* the sandbox was not invoked for it.
C2_NoProviderIsAnError ==
  [](\A r \in Runs :
       (~approvalProvider /\ pc[r] # "idle" /\ isExternal(r))
         => /\ pc[r] = "done"
            /\ IsSome(result[r])
            /\ IsSome(Get(result[r]).error)
            /\ nonEmpty(Get(Get(result[r]).error))
            /\ mentions(Get(Get(result[r]).error), "approval")
            /\ sandboxCalls[r] = <<>>)

C2_Witness ==
  \E r \in Runs : ~approvalProvider /\ isExternal(r) /\ pc[r] = "done"

\* C3: a run of an external-risk command is never suspended in
\* requestApproval while no listener is registered for the request event
\* (it has failed with an error instead).
C3_NoListenerFailsFast ==
  \A r \in Runs :
    ~(pc[r] = "awaitApproval" /\ ~IsSome(approval[r]) /\ requestListeners = 0)

\* C4: once a request with sanitized command C was allowed for the session
\* (and until resetSession), a run that calls requestApproval for a command
\* whose sanitized form is C gets {allow, session} at once: no id is
\* consumed, no pending entry is stored and no request event is emitted.
C4_SessionAllowIsReused ==
  [][\A r \in Runs :
       (/\ pc[r] = "idle"
        /\ pc'[r] = "awaitApproval"
        /\ trim(Get(input'[r].command)) \in sessionAllowed)
         => /\ approval'[r] = Some(sessionAllow)
            /\ approvalId'[r] = None
            /\ approvalCounter' = approvalCounter
            /\ pending' = pending
            /\ requestEvents' = requestEvents]_vars

C4_Witness ==
  \E r \in Runs :
    /\ isExternal(r)
    /\ rawCommandOf(r) # trim(rawCommandOf(r))
    /\ approvalId[r] = None
    /\ approval[r] = Some(sessionAllow)

\* C5: an id is pending, or was resolved, never both: while its entry is in
\* the pending map the call is suspended and nothing was resolved; once the
\* entry is gone the resolve callback ran exactly once, exactly one resolved
\* event was emitted for the id and the call has its result.
C5_ResolvedExactlyOnce ==
  [](\A id \in RequestIds :
       /\ resolveCalls[id] <= 1
       /\ Len(resolvedEvents[id]) = resolveCalls[id]
       /\ Len(requestEvents[id]) <= 1
       /\ id \in DOMAIN pending
            => /\ issued(id)
               /\ resolveCalls[id] = 0
               /\ approvalId[pending[id].resolve] = Some(id)
               /\ approval[pending[id].resolve] = None
       /\ (issued(id) /\ id \notin DOMAIN pending)
            => /\ resolveCalls[id] = 1
               /\ \E r \in Runs : approvalId[r] = Some(id) /\ IsSome(approval[r])
       /\ ~issued(id) => id \notin DOMAIN pending /\ resolveCalls[id] = 0)

C5_Witness ==
  \E id \in RequestIds :
    issued(id) /\ id \notin DOMAIN pending /\ resolveCalls[id] = 1

\* C6: of two calls (respond or cancel) for the same pending id, the first
\* returns true and delivers its decision, the second returns false and
\* changes nothing (pending map, session cache, events, promises); a call
\* for an id that is not pending, issued or not, does the same.
C6_OneWinnerLoserIsNoOp ==
  \A id \in RequestIds, c1 \in Calls :
    LET P1 == apply(provider, id, c1) IN
    IF id \in DOMAIN pending
    THEN /\ P1.ret = Some(TRUE)
         /\ deliveredIs(P1.approval[pending[id].resolve], c1)
         /\ \A c2 \in Calls :
              apply(P1, id, c2) = [P1 EXCEPT !.ret = Some(FALSE)]
    ELSE P1 = [provider EXCEPT !.ret = Some(FALSE)]

C6_Witness ==
  /\ \E id \in RequestIds : id \in DOMAIN pending
  /\ \E id \in RequestIds : issued(id) /\ resolveCalls[id] = 1
  /\ \E id \in RequestIds : ~issued(id)

\* C7: cancelAll leaves the pending map empty and resolves each of the N
\* calls that were pending with a denial; with nothing pending it changes
\* nothing and emits nothing.
C7_CancelAllDeniesAll ==
  [](\A reason \in CancelReasons :
       LET P == cancelAll(provider, reason) IN
       /\ DOMAIN P.pending = {}
       /\ \A id \in DOMAIN pending :
            /\ P.approval[pending[id].resolve] = Some(cancelResult(reason))
            /\ P.resolveCalls[id] = 1
            /\ Len(P.resolvedEvents[id]) = 1
       /\ DOMAIN pending = {} => P = provider)

C7_Witness ==
  /\ DOMAIN pending = {}
  /\ \E r1, r2 \in Runs :
       /\ r1 # r2
       /\ approval[r1] = Some(cancelResult(Some(<<"Conversation reset.">>)))
       /\ approval[r2] = Some(cancelResult(Some(<<"Conversation reset.">>)))

\* C8: a step that resolves a pending id with a denial delivers
\* {deny, reason} to the suspended call, with the reason given or else a
\* non-empty default, and adds nothing to the session cache.
C8_DenialCarriesReason ==
  [][\A id \in DOMAIN pending :
       (resolvedEvents'[id] # <<>> /\ resolvedEvents'[id][1].decision.type = "deny")
         => LET given == resolvedEvents'[id][1].decision.reason
                delivered == approval'[pending[id].resolve]
            IN /\ IsSome(delivered)
               /\ Get(delivered).decision = "deny"
               /\ IsSome(Get(delivered).reason)
               /\ IsSome(given) => Get(delivered).reason = given
               /\ ~IsSome(given) => nonEmpty(Get(Get(delivered).reason))
               /\ approvedCommands' = approvedCommands]_vars

C8_Witness ==
  /\ \E r \in Runs :
       /\ IsSome(approval[r])
       /\ Get(approval[r]).decision = "deny"
       /\ Get(approval[r]).reason = Some(deniedByUserMessage(rawCommandOf(r)))
  /\ \E r \in Runs :
       /\ IsSome(approval[r])
       /\ Get(approval[r]).reason = Some(<<"nope">>)

\* C9: on a cache miss requestApproval stores the entry under an id that
\* was never used, emits exactly one request event with that id and the
\* request, and leaves the call suspended; a call that stored an entry has
\* a result only after the resolve callback of its id ran.
C9_MissStoresEmitsSuspends ==
  /\ [](\A r \in Runs :
          (IsSome(approvalId[r]) /\ IsSome(approval[r]))
            => resolveCalls[Get(approvalId[r])] >= 1)
  /\ [][\A r \in Runs :
          (/\ pc[r] = "idle"
           /\ pc'[r] = "awaitApproval"
           /\ trim(Get(input'[r].command)) \notin approvedCommands)
            => \E id \in RequestIds :
                 /\ fresh(id)
                 /\ id \in DOMAIN pending'
                 /\ pending'[id].request = approvalRequest(Get(input'[r].command))
                 /\ pending'[id].resolve = r
                 /\ Len(requestEvents'[id]) = 1
                 /\ requestEvents'[id][1].id = id
                 /\ requestEvents'[id][1].request = pending'[id].request
                 /\ \A other \in RequestIds \ {id} :
                      requestEvents'[other] = requestEvents[other]
                 /\ approvalId'[r] = Some(id)
                 /\ approval'[r] = None]_vars

C9_Witness ==
  \E r \in Runs :
    /\ pc[r] = "awaitApproval"
    /\ IsSome(approvalId[r])
    /\ approval[r] = None
    /\ Get(approvalId[r]) \in DOMAIN pending
    /\ Len(requestEvents[Get(approvalId[r])]) = 1

\* C10: a respond or cancel for one pending id leaves every other pending
\* entry in the map, its call suspended and its events untouched, whatever
\* the decision and the cache keys; a call that has a result has the result
\* of the resolved event of its own id.
C10_OtherRequestsUntouched ==
  [](/\ \A id1 \in DOMAIN pending, call \in Calls, id2 \in DOMAIN pending :
          id1 # id2 =>
            LET P == apply(provider, id1, call) IN
            /\ id2 \in DOMAIN P.pending
            /\ P.pending[id2] = pending[id2]
            /\ P.approval[pending[id2].resolve] = None
            /\ P.resolveCalls[id2] = 0
            /\ P.resolvedEvents[id2] = <<>>
     /\ \A r \in Runs :
          (IsSome(approvalId[r]) /\ IsSome(approval[r]))
            => /\ resolvedEvents[Get(approvalId[r])] # <<>>
               /\ Get(approval[r]) = resolvedEvents[Get(approvalId[r])][1].result)

C10_Witness ==
  \E id1, id2 \in RequestIds :
    /\ id1 # id2
    /\ resolvedEvents[id1] # <<>>
    /\ resolvedEvents[id1][1].result = sessionAllow
    /\ id2 \in DOMAIN pending
    /\ pending[id2].cacheKey = requestEvents[id1][1].request.analysis.sanitizedCommand
    /\ approval[pending[id2].resolve] = None

\* ----------------------------------------- claims on runSandboxedCommand
\* The chunk would raise its stream's size above the cap.
overflows(stream, chunk) ==
  (IF stream = "stdout" THEN stdoutSize ELSE stderrSize) + Len(chunk) > MaxBuffer

\* A data event whose chunk overflows its stream.
childOverflow ==
  \E stream \in Streams, chunk \in Chunks :
    overflows(stream, chunk) /\ childData(stream, chunk)

\* One of the four terminal events fires.
terminalEvent ==
  \/ timeoutExpires
  \/ childError
  \/ childOverflow
  \/ \E status \in ExitStatuses : childClose(status)

\* C11: in one runSandboxedCommand call the timeout, an overflow, the error
\* event and the close event may come in any order; resolve or reject is
\* called at most once, by the first of them, and no later event changes the
\* settled value or what the caller received.
C11_ExactlyOneOutcome ==
  /\ [](/\ Len(settleCalls) <= 1
        /\ completed <=> Len(settleCalls) = 1
        /\ IsSome(sandboxPromise) <=> completed
        /\ completed => sandboxPromise = Some(settleCalls[1])
        /\ step = "returned" => returned = sandboxPromise)
  /\ [][/\ (terminalEvent /\ ~completed) =>
             (completed' /\ Len(settleCalls') = 1)
        /\ completed => UNCHANGED <<completed, settleCalls, sandboxPromise>>
        /\ IsSome(returned) => UNCHANGED returned]_vars

\* The timeout settled the call, the call returned its error, and data, the
\* error event and the close event all came afterwards or before without
\* changing it.
C11_Witness ==
  /\ step = "returned"
  /\ returned = Some(rejected(timedOutMessage, None))
  /\ errorEmitted
  /\ closeEmitted
  /\ dataEvents > 0

\* C12: every scratch home directory runSandboxedCommand created has had its
\* removal attempted by the time the caller receives the result or the error.
C12_RemovalBeforeDelivery ==
  (IsSome(returned) /\ homeDirectory # "none") => removalAttempts >= 1

\* C13: whether fs.rm removes the scratch directory or fails, the caller of
\* runSandboxedCommand receives the value the promise settled with: the same
\* result or the same ShellSandboxError in both cases.
C13_CleanupFailureIsSilent ==
  [][(\E rmFails \in BOOLEAN : leaveFinally(rmFails)) =>
       (IsSome(sandboxPromise) /\ returned' = sandboxPromise)]_vars

\* The removal failed (the directory is still there) after a call that
\* resolved, and the caller has its result.
C13_Witness ==
  /\ step = "returned"
  /\ removalAttempts = 1
  /\ homeDirectory = "exists"
  /\ IsSome(returned)
  /\ Get(returned).settled = "resolve"

\* C14: when the timer expires before any other terminal event, the child
\* is sent a kill and the call fails with a ShellSandboxError for the timeout
\* that carries no result; when an overflowing chunk aborts the call, the
\* child is sent a kill too, and in both cases the kill precedes the delivery
\* of the error to the caller.
C14_TimeoutAndOverflowKill ==
  /\ [][/\ (timeoutExpires /\ ~completed) =>
             /\ killCalls' = killCalls + 1
             /\ sandboxPromise' = Some(rejected(timedOutMessage, None))
        /\ (childOverflow /\ ~completed) =>
             /\ killCalls' = killCalls + 1
             /\ IsSome(sandboxPromise')
             /\ Get(sandboxPromise').error = "ShellSandboxError"]_vars
  /\ []((step = "returned" /\ Get(returned).error = "ShellSandboxError")
          => killCalls = 1)

\* The timeout came first: the caller has the timeout error without a result
\* and the child was sent one kill.
C14_Witness ==
  /\ step = "returned"
  /\ returned = Some(rejected(timedOutMessage, None))
  /\ killCalls = 1
  /\ settleCalls = <<rejected(timedOutMessage, None)>>

\* C15: a data chunk that would raise its stream's size above maxBuffer, in
\* a call that has not settled yet, makes the call fail in that very step
\* with a ShellSandboxError whose partial result is the text of the chunks
\* accepted before it on stdout and on stderr (the overflowing chunk is not
\* among them), exitCode null and signal null; a chunk that fits is accepted,
\* and each stream's size is the byte count of its accepted chunks.
C15_OverflowCarriesAcceptedChunks ==
  /\ [][\A stream \in Streams, chunk \in Chunks :
          childData(stream, chunk) =>
            IF overflows(stream, chunk)
            THEN /\ UNCHANGED <<stdoutChunks, stderrChunks, stdoutSize, stderrSize>>
                 /\ ~completed =>
                      sandboxPromise' =
                        Some(rejected(exceededMessage(stream),
                                      Some([stdout |-> toString(concat(stdoutChunks)),
                                            stderr |-> toString(concat(stderrChunks)),
                                            exitCode |-> None,
                                            signal |-> None])))
            ELSE /\ stream = "stdout" =>
                      (stdoutChunks' = Append(stdoutChunks, chunk)
                         /\ stderrChunks' = stderrChunks)
                 /\ stream = "stderr" =>
                      (stderrChunks' = Append(stderrChunks, chunk)
                         /\ stdoutChunks' = stdoutChunks)
                 /\ UNCHANGED sandboxPromise]_vars
  /\ [](/\ stdoutSize = Len(concat(stdoutChunks))
        /\ stderrSize = Len(concat(stderrChunks))
        /\ stdoutSize <= MaxBuffer
        /\ stderrSize <= MaxBuffer)

\* stdout overflowed after chunks were accepted on both streams, and the
\* caller has the error with the text of exactly those chunks.
C15_Witness ==
  /\ step = "returned"
  /\ Len(stdoutChunks) >= 1
  /\ Len(stderrChunks) >= 1
  /\ returned =
       Some(rejected(exceededMessage("stdout"),
                     Some([stdout |-> toString(concat(stdoutChunks)),
                           stderr |-> toString(concat(stderrChunks)),
                           exitCode |-> None, signal |-> None])))

\* --------------------------------------------------- claims on ShellTool.run
\* requestApproval of the configured provider was called by run r.
requestApprovalCalled(r) == IsSome(approvalId[r]) \/ IsSome(approval[r])

isLowRisk(r) == isCommand(r) /\ Analysis[rawCommandOf(r)].risk.level = "low"

\* C16: a run whose command is missing, is no string, is empty or is only
\* white space returns the input error in its first step, without risk
\* analysis in the result, without a requestApproval call and without a
\* sandbox call, and leaves the provider untouched.
C16_MissingCommandReturnsAtOnce ==
  /\ [](\A r \in Runs :
          (pc[r] # "idle" /\ ~isCommand(r)) =>
            /\ pc[r] = "done"
            /\ result[r] = Some(missingInputResult)
            /\ Get(result[r]).error = Some(missingInputMessage)
            /\ Get(result[r]).tone = "error"
            /\ Get(result[r]).risk = None
            /\ ~requestApprovalCalled(r)
            /\ sandboxCalls[r] = <<>>)
  /\ [][\A r \in Runs :
          (pc[r] = "idle" /\ pc'[r] # "idle"
             /\ (input'[r].typeof # "string"
                   \/ Len(trim(Get(input'[r].command))) = 0)) =>
            (pc'[r] = "done" /\ UNCHANGED providerVars)]_vars

\* A provider is configured and the run of a command of white space only has
\* returned the input error.
C16_Witness ==
  /\ approvalProvider
  /\ input[FirstRun] = [typeof |-> "string", command |-> Some(<<" ">>)]
  /\ pc[FirstRun] = "done"
  /\ result[FirstRun] = Some(missingInputResult)
  /\ sandboxCalls[FirstRun] = <<>>

\* C17: the run of a low-risk command never calls requestApproval, with or
\* without a provider: its first step leaves the provider untouched and takes
\* the run to the sandbox call.
C17_LowRiskSkipsApproval ==
  /\ [](\A r \in Runs :
          isLowRisk(r) =>
            /\ ~requestApprovalCalled(r)
            /\ pc[r] \in {"execute", "sandbox", "done"})
  /\ [][\A r \in Runs :
          (pc[r] = "idle" /\ pc'[r] # "idle"
             /\ IsSome(input'[r].command)
             /\ Len(trim(Get(input'[r].command))) > 0
             /\ Analysis[Get(input'[r].command)].risk.level = "low") =>
            (pc'[r] = "execute" /\ UNCHANGED providerVars)]_vars

\* With a provider configured, a low-risk command reached the sandbox and no
\* approval was ever requested.
C17_Witness ==
  /\ approvalProvider
  /\ \E r \in Runs :
       /\ isLowRisk(r)
       /\ sandboxCalls[r] = <<rawCommandOf(r)>>
       /\ ~requestApprovalCalled(r)
  /\ approvalCounter = 0

\* C18: when the provider answers deny for an external-risk command, the run
\* returns an error result: error is the provider's reason, or the default
\* denial message when the answer has no reason; output is empty; the sandbox
\* is not called.
C18_DenialBecomesError ==
  \A r \in Runs :
    (isExternal(r) /\ IsSome(approval[r]) /\ Get(approval[r]).decision = "deny") =>
      /\ pc[r] \in {"awaitApproval", "done"}
      /\ sandboxCalls[r] = <<>>
      /\ pc[r] = "done" =>
           /\ Get(result[r]).error =
                Some(IF IsSome(Get(approval[r]).reason)
                     THEN Get(Get(approval[r]).reason)
                     ELSE deniedByProviderMessage(rawCommandOf(r)))
           /\ Get(result[r]).output = <<>>
           /\ Get(result[r]).tone = "error"

\* A provider answered deny without a reason and the run returned the default
\* denial message.
C18_Witness ==
  \E r \in Runs :
    /\ isExternal(r)
    /\ pc[r] = "done"
    /\ approval[r] = Some([decision |-> "deny", scope |-> None, reason |-> None])
    /\ Get(result[r]).error = Some(deniedByProviderMessage(rawCommandOf(r)))
    /\ sandboxCalls[r] = <<>>

\* C19: every run that ends on a failure path (it never reached the sandbox,
\* or the sandbox call failed) returns a result with a non-empty error string
\* and tone error, and the sandbox is called at most once.
C19_FailuresReportNonEmptyError ==
  \A r \in Runs :
    /\ Len(sandboxCalls[r]) <= 1
    /\ pc[r] = "done" =>
         /\ IsSome(result[r])
         /\ (sandboxCalls[r] = <<>> \/ Get(result[r]).tone = "error") =>
              /\ Get(result[r]).tone = "error"
              /\ IsSome(Get(result[r]).error)
              /\ Len(Get(Get(result[r]).error)) > 0

\* ------------------------------------------- claims on analyzeShellCommand
\* C20: for every command line analysed, risk.level is external exactly when
\* risk.reasons is not empty, no reason occurs twice, and every reason is one
\* of the six tags of the vocabulary.
C20_LevelMatchesReasons ==
  IsSome(shellAnalysis) =>
    LET risk == Get(shellAnalysis).risk IN
    /\ risk.level \in {"low", "external"}
    /\ risk.level = "external" <=> Len(risk.reasons) > 0
    /\ \A i, j \in 1..Len(risk.reasons) : i # j => risk.reasons[i] # risk.reasons[j]
    /\ \A i \in 1..Len(risk.reasons) : risk.reasons[i] \in RiskTags

\* "curl https://x" was analysed: external, for two different reasons.
C20_Witness ==
  /\ shellCommand = Some(<<"c","u","r","l"," ","h","t","t","p","s",":","/","/","x">>)
  /\ IsSome(shellAnalysis)
  /\ Get(shellAnalysis).risk = [level |-> "external",
                                 reasons |-> <<"network", "url-detected">>]

\* The keyword vocabularies of the classifier.
Keywords ==
  NETWORK_COMMANDS \cup PACKAGE_COMMANDS \cup SOURCE_CONTROL_COMMANDS
    \cup CONTAINER_COMMANDS

\* The text names a URL scheme the classifier looks for, in any case.
hasUrl(text) ==
  \E scheme \in { <<"h","t","t","p",":","/","/">>, <<"h","t","t","p","s",":","/","/">>,
                   <<"s","c","p",":","/","/">>, <<"s","f","t","p",":","/","/">> } :
    includes(lower(text), scheme)

\* C21: a command line none of whose tokens is a keyword of the network,
\* package, source-control or container vocabulary, and which names no
\* http(s):// and no scp:// or sftp:// URL, is classified low with no reasons.
C21_NoKeywordIsLow ==
  IsSome(shellAnalysis) =>
    LET a == Get(shellAnalysis) IN
    ((\A i \in 1..Len(a.tokens) : a.tokens[i] \notin Keywords)
       /\ ~hasUrl(Get(shellCommand))) =>
      (a.risk.level = "low" /\ a.risk.reasons = <<>>)

\* "ls install", a local command followed by a verb, was analysed as low.
C21_Witness ==
  /\ shellCommand = Some(<<"l","s"," ","i","n","s","t","a","l","l">>)
  /\ IsSome(shellAnalysis)
  /\ Get(shellAnalysis).tokens = << <<"l","s">>, <<"i","n","s","t","a","l","l">> >>
  /\ Get(shellAnalysis).risk = [level |-> "low", reasons |-> <<>>]

\* ------------------------------------------ claims on tokenizeShellCommand
\* The string is one quoted segment: it opens and closes with the same quote
\* and that quote does not occur in between.
isQuotedSegment(text) ==
  /\ Len(text) >= 2
  /\ text[1] \in {"\"", "'"}
  /\ text[Len(text)] = text[1]
  /\ \A i \in 2..(Len(text) - 1) : text[i] # text[1]

\* The white-space characters of the text that stand outside quotes, counted
\* from position index on, with the quote that is open there ("" for none).
RECURSIVE blanksOutsideQuotes(_, _, _)
blanksOutsideQuotes(text, index, quote) ==
  IF index > Len(text) THEN 0
  ELSE LET char == text[index] IN
       IF quote # ""
       THEN blanksOutsideQuotes(text, index + 1, IF char = quote THEN "" ELSE quote)
       ELSE IF char \in {"\"", "'"}
       THEN blanksOutsideQuotes(text, index + 1, char)
       ELSE (IF char \in WhiteSpace THEN 1 ELSE 0)
              + blanksOutsideQuotes(text, index + 1, "")

\* C22: the contents of a quoted segment are taken literally, a backslash
\* among them included: a string that is one quoted segment yields its
\* contents (trimmed by the final pass) as the only token.
C22_QuotedContentsAreLiteral ==
  (IsSome(shellTokens) /\ isQuotedSegment(Get(shellCommand))) =>
    LET text == Get(shellCommand) IN
    Get(shellTokens) = filterNonEmpty(<<trim(SubSeq(text, 2, Len(text) - 1))>>)

\* C23: the tokenizer starts a new token only at white space outside quotes:
\* a string without backslashes has at most one token more than it has
\* white-space characters outside quotes.
C23_SplitsOnlyOnOuterWhiteSpace ==
  (IsSome(shellTokens)
     /\ \A i \in 1..Len(Get(shellCommand)) : Get(shellCommand)[i] # "\\") =>
    Len(Get(shellTokens)) <= 1 + blanksOutsideQuotes(Get(shellCommand), 1, "")

\* ------------------------------------------- claims on createOutputPreview
\* The entries of a preview that are lines of the output, not the marker.
shownLines(p) == { k \in 1..Len(p.lines) : p.lines[k] # <<Ellipsis>> }

\* The lines of the output that are not blank.
nonBlankLines(output) ==
  LET raw == split(output) IN { k \in 1..Len(raw) : Len(trim(raw[k])) > 0 }

\* C24 as stated: truncated is true exactly when the output has more lines
\* than the preview shows.
C24_TruncatedIffMoreLines ==
  (IsSome(preview) /\ IsSome(Get(preview))) =>
    LET p == Get(Get(preview)) IN
    p.truncated <=>
      Len(split(Get(previewOutput))) > Cardinality(shownLines(p))

\* C24, amended: a preview has at most PREVIEW_HEAD_LINES + PREVIEW_TAIL_LINES
\* + 1 = 4 entries, each of at most 120 characters, and truncated is true
\* exactly when the output has more non-blank lines than the preview shows.
C24_PreviewIsBounded ==
  (IsSome(preview) /\ IsSome(Get(preview))) =>
    LET p == Get(Get(preview)) IN
    /\ Len(p.lines) <= PREVIEW_HEAD_LINES + PREVIEW_TAIL_LINES + 1
    /\ Len(p.lines) <= 4
    /\ \A k \in 1..Len(p.lines) : Len(p.lines[k]) <= 120
    /\ p.truncated <=>
         Cardinality(nonBlankLines(Get(previewOutput))) > Cardinality(shownLines(p))

\* A truncated preview of four entries whose first line was cut to 120
\* characters.
C24_Witness ==
  /\ IsSome(preview)
  /\ IsSome(Get(preview))
  /\ Get(Get(preview)).truncated
  /\ Len(Get(Get(preview)).lines) = 4
  /\ Len(Get(Get(preview)).lines[1]) = 120
  /\ Get(Get(preview)).lines[1][120] = Ellipsis

\* ------------------------------------------ claims on the two providers
\* The number an id was built from.
numberOf(id) == id[2]

\* C27: the ids nextId returned, whichever instance asked and whatever was
\* cancelled or reset in between, are pairwise different and their numbers
\* rise strictly in creation order; an id pending at one instance is
\* pending at no other, and no id got a second request event.
C27_IdsUniqueAndIncreasing ==
  /\ \A i, j \in 1..Len(createdIds) :
       i < j => numberOf(createdIds[i].id) < numberOf(createdIds[j].id)
  /\ DOMAIN pending \cap DOMAIN secondProvider.pending = {}
  /\ \A id \in DOMAIN requestEvents :
       Len(requestEvents[id]) + Len(secondProvider.requestEvents[id]) <= 1
  /\ \A k \in Instances : \A id \in DOMAIN providerOf(k).pending :
       \E i \in 1..Len(createdIds) : createdIds[i] = [id |-> id, instance |-> k]

\* Each instance was given an id, the second one after a conversation
\* reset had removed the entry of the first.
C27_Witness ==
  /\ Len(createdIds) = 2
  /\ createdIds[1].instance = 1
  /\ createdIds[2].instance = 2
  /\ createdIds[2].id \in DOMAIN secondProvider.pending
  /\ \E e \in 1..Len(resolvedEvents[createdIds[1].id]) :
       resolvedEvents[createdIds[1].id][e].decision.reason = ResetReason

\* The decision that allows a request for the session.
allowForSession == [type |-> "allow", scope |-> Some("session"), reason |-> None]

\* The cache key of a command.
keyOf(rawCommand) == Analysis[rawCommand].sanitizedCommand

\* The slots of promises no requestApproval call has used.
freeCallers(P) == { c \in Callers : P.approvalId[c] = None /\ P.approval[c] = None }

\* requestApproval for the request misses the cache: the call is left
\* suspended and a request event is emitted under an id of a higher number
\* than any created before.
emitsNewRequest(P, c, request) ==
  LET R == requestApproval(P, c, request, 1) IN
  /\ R.approval[c] = None
  /\ IsSome(R.approvalId[c])
  /\ LET id == Get(R.approvalId[c]) IN
     /\ id \notin DOMAIN P.pending
     /\ id \in DOMAIN R.pending
     /\ R.pending[id].request = request
     /\ \A i \in 1..Len(createdIds) : numberOf(createdIds[i].id) < numberOf(id)
     /\ id \in DOMAIN P.requestEvents =>
          /\ P.requestEvents[id] = <<>>
          /\ Len(R.requestEvents[id]) = 1
          /\ R.requestEvents[id][1].request = request

\* C25: a key is in an instance's session cache only if a request with that
\* key was answered with allow for the session since the last resetSession;
\* an allow for the session adds the key of its request, and every other
\* answer (allow once, deny, cancel, cancelAll) leaves the cache as it was,
\* so that the next requestApproval for the same request emits a new request
\* unless the key was cached before.
C25_CacheOnlyBySessionAllow ==
  \A k \in Instances :
    LET P == providerOf(k) IN
    /\ P.approvedCommands \subseteq P.sessionAllowed
    /\ \A key \in P.approvedCommands :
         \E id \in DOMAIN P.resolvedEvents :
           /\ P.requestEvents[id] # <<>>
           /\ keyOf(P.requestEvents[id][1].request.command) = key
           /\ \E e \in 1..Len(P.resolvedEvents[id]) :
                P.resolvedEvents[id][e].decision = allowForSession
    /\ \A reason \in CancelReasons :
         cancelAll(P, reason).approvedCommands = P.approvedCommands
    /\ \A id \in DOMAIN P.pending, call \in Calls :
         LET Q == apply(P, id, call)
             request == P.pending[id].request
         IN IF call.op = "respond" /\ call.decision = allowForSession
            THEN Q.approvedCommands = P.approvedCommands \cup {keyOf(request.command)}
            ELSE /\ Q.approvedCommands = P.approvedCommands
                 /\ keyOf(request.command) \notin P.approvedCommands =>
                      \A c \in freeCallers(Q) : emitsNewRequest(Q, c, request)

\* After an allow-once for a command, the next requestApproval for the same
\* command is pending under a new id and the cache is empty.
C25_Witness ==
  \E k \in Instances :
    LET P == providerOf(k) IN
    /\ Len(createdIds) = 2
    /\ createdIds[1].instance = k
    /\ createdIds[2].instance = k
    /\ P.approvedCommands = {}
    /\ createdIds[2].id \in DOMAIN P.pending
    /\ P.resolvedEvents[createdIds[1].id] # <<>>
    /\ P.resolvedEvents[createdIds[1].id][1].decision.type = "allow"
    /\ P.resolvedEvents[createdIds[1].id][1].decision.scope = Some("once")
    /\ keyOf(P.requestEvents[createdIds[1].id][1].request.command)
         = keyOf(P.pending[createdIds[2].id].request.command)

\* The denial a conversation reset delivers.
resetDenial == [decision |-> "deny", scope |-> None, reason |-> ResetReason]

\* C26: a conversation reset (cancelAll with the reset reason, then
\* resetSession) resolves every request that was pending as a denial with
\* the reset reason, leaves the promises settled before as they were, and
\* leaves the pending map and the session cache empty; a requestApproval
\* after it emits a new request whatever was cached before; resetSession
\* alone leaves the pending map unchanged.
C26_ResetDeniesAllAndForgets ==
  [][\A k \in Instances :
       LET P == providerOf(k) IN
       /\ handleReset(k) =>
            /\ providerOf(k)'.pending = <<>>
            /\ providerOf(k)'.approvedCommands = {}
            /\ \A id \in DOMAIN P.pending :
                 /\ providerOf(k)'.approval[P.pending[id].resolve] = Some(resetDenial)
                 /\ providerOf(k)'.resolveCalls[id] = P.resolveCalls[id] + 1
                 /\ Len(providerOf(k)'.resolvedEvents[id]) = Len(P.resolvedEvents[id]) + 1
            /\ \A c \in Callers :
                 IsSome(P.approval[c]) => providerOf(k)'.approval[c] = P.approval[c]
            /\ \A rawCommand \in ProviderCommands : \A c \in freeCallers(P) :
                 emitsNewRequest(providerOf(k)', c, approvalRequest(rawCommand))
       /\ callResetSessionOf(k) =>
            /\ providerOf(k)'.pending = P.pending
            /\ providerOf(k)'.approvedCommands = {}
            /\ providerOf(k)'.approval = P.approval
    ]_vars

\* A reset has acted on a session-approved command and an outstanding
\* request: the first id was allowed for the session, the second was denied
\* with the reset reason, and nothing is pending or cached.
C26_Witness ==
  /\ Len(createdIds) = 2
  /\ createdIds[1].instance = 1
  /\ createdIds[2].instance = 1
  /\ resolvedEvents[createdIds[1].id] # <<>>
  /\ resolvedEvents[createdIds[1].id][1].decision = allowForSession
  /\ resolvedEvents[createdIds[2].id] # <<>>
  /\ resolvedEvents[createdIds[2].id][1].result = resetDenial
  /\ sessionAllowed = {}
  /\ pending = <<>>
  /\ approvedCommands = {}

\* -------------------------------------------------- claims on WriteFileTool
\* C28: a run of WriteFileTool that returned changed the file to the content
\* it returns, or returned an error and left the file as it was when the
\* run began.
C28_AllOrNothing ==
  (writePc = "done") =>
    IF IsSome(Get(writeResult).error)
    THEN fileOnDisk = fileBefore
    ELSE fileOnDisk = Some(Get(writeResult).output)

\* ---------------------------------------------------------- claims on Agent
\* The tool messages of the history, in order.
toolMessagesOf(messages) == SelectSeq(messages, LAMBDA m : m.role = "tool")

\* The ids of the tool calls executeTool was called for, in order.
startedIds ==
  LET starts == SelectSeq(toolEvents, LAMBDA e : e.event = "start")
  IN [i \in 1..Len(starts) |-> starts[i].id]

\* C29: when processUserMessage has returned, every tool call that was
\* executed has exactly one tool message, in the order of execution, in the
\* history, in the toolMessages of the result and among the calls of
\* onToolMessage.
C29_ExecutedCallsAreReturned ==
  (agentPc = "done") =>
    LET ids == startedIds
        handedBack == OrElse(Get(turnResult).toolMessages, <<>>)
        idsOf(messages) == [i \in 1..Len(messages) |-> messages[i].toolCallId]
    IN /\ idsOf(toolMessagesOf(history)) = ids
       /\ idsOf(onToolMessageCalls) = ids
       /\ idsOf(handedBack) = ids

\* ------------------------------------------------ claims on the detectors
\* Some token of the set stands right before one of the verbs.
adjacent(tokens, commands, verbs) ==
  \E i \in 1..(Len(tokens) - 1) : tokens[i] \in commands /\ tokens[i + 1] \in verbs

\* How often the tag stands among the reasons.
occurrences(reasons, tag) == Cardinality({ i \in 1..Len(reasons) : reasons[i] = tag })

C31_ShortCircuitIffTrimmedKeyCached ==
  [](/\ approvedCommands \subseteq { trim(c) : c \in CommandStrings }
     /\ approvedCommands \subseteq sessionAllowed
     /\ \A r \in Runs, c \in CommandStrings :
          approval[r] = None =>
            LET P == requestApproval(provider, r, approvalRequest(c), requestListeners)
                shortCircuit == /\ P.approval[r] = Some(sessionAllow)
                                /\ P.pending = pending
                                /\ P.requestEvents = requestEvents
                                /\ P.approvalCounter = approvalCounter
            IN /\ shortCircuit <=> trim(c) \in approvedCommands
               /\ ~shortCircuit =>
                    /\ P.approval[r] = None
                    /\ DOMAIN P.pending # DOMAIN pending)

\* nc was allowed for the session on request, and the run of " nc" got the
\* cached allow without a request of its own.
C31_Witness ==
  \E r, q \in Runs :
    /\ input[r].command = Some(<<"n","c">>)
    /\ IsSome(approvalId[r])
    /\ resolvedEvents[Get(approvalId[r])] # <<>>
    /\ resolvedEvents[Get(approvalId[r])][1].result = sessionAllow
    /\ input[q].command = Some(<<" ","n","c">>)
    /\ approvalId[q] = None
    /\ approval[q] = Some(sessionAllow)
    /\ approvedCommands = { <<"n","c">> }

\* ----------------------------------------- claims on the command of a run
\* C32: a run hands the sandbox at most one command, the raw command of its
\* input, character for character; the approval request the run made, if
\* any, carries the same raw command and the analysis of it; and no run
\* made more than one request: the ids issued are as many as the runs that
\* hold one, and no two runs hold the same.
C32_SandboxGetsTheApprovedCommand ==
  [](/\ \A r \in Runs :
          /\ Len(sandboxCalls[r]) <= 1
          /\ sandboxCalls[r] # <<>> =>
               /\ input[r].command = Some(sandboxCalls[r][1])
               /\ IsSome(approvalId[r]) => allowed(r)
          /\ IsSome(approvalId[r]) =>
               LET request == requestEvents[Get(approvalId[r])][1].request IN
               /\ Len(requestEvents[Get(approvalId[r])]) = 1
               /\ input[r].command = Some(request.command)
               /\ request.analysis = Analysis[request.command]
     /\ \A r, q \in Runs : (IsSome(approvalId[r]) /\ approvalId[r] = approvalId[q]) => r = q
     /\ Cardinality({ id \in RequestIds : issued(id) })
          = Cardinality({ r \in Runs : IsSome(approvalId[r]) }))

\* The run of " nc", allowed once on its own request, handed " nc" to the
\* sandbox with the leading blank.
C32_Witness ==
  \E r \in Runs :
    /\ sandboxCalls[r] = << <<" ","n","c">> >>
    /\ IsSome(approvalId[r])
    /\ requestEvents[Get(approvalId[r])][1].request.command = <<" ","n","c">>
    /\ Get(approval[r]).scope = Some("once")

\* ------------------------------------- claims on listeners that call back
logged == { listenerLog[i] : i \in 1..Len(listenerLog) }

\* C33: a call made by a resolved-event listener finds respond's work on the
\* provider done: respond or cancel for the id of the event returns false
\* and the id's promise was resolved once and has one resolved event; a
\* requestApproval for the command of the event emits a request event
\* exactly if the command's key is not cached, and after an allow for the
\* session its promise holds the cached allow.
C33_ListenerFindsRespondDone ==
  \A e \in logged :
    e.at = "resolved" =>
      /\ e.call \in {"respond", "cancel"} =>
           /\ e.ret = Some(FALSE)
           /\ resolveCalls[e.id] = 1
           /\ Len(resolvedEvents[e.id]) = 1
           /\ e.id \notin DOMAIN pending
      /\ e.call = "requestApproval" =>
           LET request == requestEvents[e.id][1].request
               event == resolvedEvents[e.id][1]
           IN /\ e.emitted <=> e.promise = None
              /\ (event.decision.type = "allow"
                    /\ event.decision.scope = Some("session")) =>
                   /\ e.promise = Some(sessionAllow)
                   /\ ~e.emitted
                   /\ buildCacheKey(request) \in approvedCommands

C33_Witness ==
  \E e \in logged :
    /\ e.at = "resolved"
    /\ e.call = "requestApproval"
    /\ resolvedEvents[e.id][1].decision.scope = Some("session")
    /\ e.promise = Some(sessionAllow)
    /\ ~e.emitted
    /\ Cardinality({ id \in ListenerIds : issued(id) }) = 1
    /\ pending = <<>>

\* C34: an id with a request event is pending or was resolved, and a
\* respond made by a request-event listener for the id of the event returns
\* true and settles the promise of the requestApproval call with the result
\* of the listener's decision; the id is not left pending.
C34_RequestEventFollowsStore ==
  /\ \A id \in ListenerIds :
       issued(id) => (id \in DOMAIN pending \/ resolveCalls[id] = 1)
  /\ \A e \in logged :
       e.at = "request" =>
         /\ e.ret = Some(TRUE)
         /\ e.id \notin DOMAIN pending
         /\ Len(resolvedEvents[e.id]) = 1
         /\ e.promise = Some(resolvedEvents[e.id][1].result)
         /\ \E c \in Requesters :
              /\ approvalId[c] = Some(e.id)
              /\ approval[c] = e.promise
              /\ Get(approval[c]).decision = resolvedEvents[e.id][1].decision.type

C34_Witness ==
  \E e \in logged :
    /\ e.at = "request"
    /\ e.ret = Some(TRUE)
    /\ IsSome(e.promise)
    /\ Get(e.promise).decision = "deny"
    /\ resolveCalls[e.id] = 1

\* C35: when a cancelAll that found requests pending returns, the requests
\* pending are exactly those created during the call, none of them of the
\* snapshot; every id of the snapshot was resolved exactly once, by the
\* cancellation or by the listener's answer before its turn came.
C35_CancelAllCancelsItsSnapshot ==
  \A e \in logged :
    e.at = "cancelAll" =>
      LET snapshot == { e.snapshot[i] : i \in 1..Len(e.snapshot) }
          created == { id \in ListenerIds :
                         /\ e.counter < numberOf(id)
                         /\ numberOf(id) <= approvalCounter }
      IN /\ e.left = DOMAIN pending
         /\ e.left = created
         /\ e.left \cap snapshot = {}
         /\ \A id \in snapshot :
              /\ resolveCalls[id] = 1
              /\ Len(resolvedEvents[id]) = 1
              /\ LET event == resolvedEvents[id][1] IN
                 \/ /\ event.result.decision = "deny"
                    /\ event.result.reason = Some(CancelledMessage)
                 \/ /\ e.call = "respondOther"
                    /\ event.result.decision = "allow"
                    /\ id # e.snapshot[1]

C35_Witness ==
  \E e \in logged :
    /\ e.at = "cancelAll"
    /\ Len(e.snapshot) = 2
    /\ e.call = "requestApproval"
    /\ nextId(3) \in e.left
    /\ resolveCalls[e.snapshot[1]] = 1
    /\ resolveCalls[e.snapshot[2]] = 1

\* --------------------------------------------- claims on the output cap
\* C36: each stream's size is the byte count of the chunks captured from it
\* and is at most maxBuffer at all times; a data event appends its chunk,
\* to its own stream only, exactly if that stream's size with the chunk is
\* at most maxBuffer, whatever the other stream holds; a chunk that brings
\* its stream to exactly maxBuffer settles nothing and kills nothing, and a
\* chunk that would pass the cap leaves both streams as they were.
C36_StreamsStayWithinMaxBuffer ==
  /\ [](/\ stdoutSize = Len(concat(stdoutChunks))
        /\ stderrSize = Len(concat(stderrChunks))
        /\ stdoutSize <= MaxBuffer
        /\ stderrSize <= MaxBuffer)
  /\ [][\A stream \in Streams, chunk \in Chunks :
          childData(stream, chunk) =>
            LET size == IF stream = "stdout" THEN stdoutSize ELSE stderrSize
                fits == size + Len(chunk) <= MaxBuffer
            IN /\ fits =>
                    /\ UNCHANGED <<completed, sandboxPromise, settleCalls, killCalls>>
                    /\ IF stream = "stdout"
                       THEN /\ stdoutChunks' = Append(stdoutChunks, chunk)
                            /\ stdoutSize' = stdoutSize + Len(chunk)
                            /\ UNCHANGED <<stderrChunks, stderrSize>>
                       ELSE /\ stderrChunks' = Append(stderrChunks, chunk)
                            /\ stderrSize' = stderrSize + Len(chunk)
                            /\ UNCHANGED <<stdoutChunks, stdoutSize>>
               /\ ~fits =>
                    /\ UNCHANGED <<stdoutChunks, stderrChunks, stdoutSize, stderrSize>>
                    /\ completed']_vars

\* Both streams hold exactly maxBuffer bytes and the call is still running.
C36_Witness ==
  /\ stdoutSize = MaxBuffer
  /\ stderrSize = MaxBuffer
  /\ Len(concat(stdoutChunks)) + Len(concat(stderrChunks)) = 2 * MaxBuffer
  /\ ~completed
  /\ sandboxPromise = None
  /\ killCalls = 0

\* ------------------------------------------ claims on a completed command
\* C37: when the sandbox resolves, whatever exit code or signal its result
\* carries, run returns a result without error and without details, of tone
\* "info", whose output is the formatted output of the command; the exit
\* code and the signal are passed on as metadata, the message is empty for
\* exit code 0 and names the code otherwise, and but for message, exit code
\* and signal the result is the one of the same output with exit code 0.
C37_CompletedCommandIsNoError ==
  [][\A outcome \in AllSandboxOutcomes :
       (sandboxSettles(FirstRun, outcome) /\ outcome.settled = "resolve") =>
         LET returnedResult == Get(result'[FirstRun])
             sandboxResult == Get(outcome.result)
             exitedCleanly == [sandboxResult EXCEPT !.exitCode = Some(0),
                                                    !.signal = None]
         IN /\ returnedResult.error = None
            /\ returnedResult.tone = "info"
            /\ returnedResult.details = None
            /\ returnedResult.output =
                 trim(join(filterNonEmpty(<<sandboxResult.stdout,
                                            sandboxResult.stderr>>), <<"\n">>))
            /\ returnedResult.exitCode = sandboxResult.exitCode
            /\ returnedResult.signal = sandboxResult.signal
            /\ returnedResult.message = <<>> <=> sandboxResult.exitCode = Some(0)
            /\ sandboxResult.exitCode # Some(0) =>
                 returnedResult.message =
                   <<"Command exited with code ",
                     IF sandboxResult.exitCode = None THEN "null"
                     ELSE ToString(Get(sandboxResult.exitCode))>>
            /\ [returnedResult EXCEPT !.message = <<>>, !.exitCode = Some(0),
                                      !.signal = None]
                 = successResult(Analysis[rawCommandOf(FirstRun)], exitedCleanly)]_vars

\* A command ended by a signal was reported: no error, tone "info", no exit
\* code, the message names "null".
C37_Witness ==
  /\ pc[FirstRun] = "done"
  /\ IsSome(result[FirstRun])
  /\ Get(result[FirstRun]).error = None
  /\ Get(result[FirstRun]).tone = "info"
  /\ Get(result[FirstRun]).exitCode = None
  /\ Get(result[FirstRun]).signal = Some("SIGKILL")
  /\ Get(result[FirstRun]).message = <<"Command exited with code ", "null">>
  /\ Get(result[FirstRun]).output = <<"a">>

\* ------------------------------------------------ claims on the agent loop
assistantMessages == SelectSeq(history, LAMBDA message : message.role = "assistant")

requestedTools(message) == message.toolCalls # <<>>

toolStarts == SelectSeq(toolEvents, LAMBDA e : e.event = "start")

=============================================================================
